---------------------------- MODULE Spec2Model ----------------------------
(***************************************************************************)
(* A model of the rule evaluation engine of the trading rules validator.   *)
(*                                                                         *)
(* The canonical trade table (a pandas DataFrame in the source) is a       *)
(* sequence of rows; every row keeps its index label `idx`, so that the    *)
(* frames obtained by filtering and sorting keep their labels as pandas    *)
(* frames do.  Timestamps are integers, in milliseconds since 00:00 UTC of *)
(* a reference Monday (negative before it).  The decimal fields of the     *)
(* file (lots, prices, stop loss) are kept as the exact decimals <<n, d>>  *)
(* in lowest terms with d > 0, NaN being <<0, 0>>; the evaluators compute  *)
(* on the binary64 values these parse to, with binary64 operations.        *)
(*                                                                         *)
(* One run loads a table row by row (LoadRow), then applies one rule       *)
(* evaluator to it.  There is one specification per evaluator.             *)
(***************************************************************************)
EXTENDS Integers, Sequences, FiniteSets, TLC

VARIABLES
    df,              \* the canonical trade table
    account_type,    \* per-run input: key of ACCOUNT_TYPES
    account_equity,  \* per-run input: equity, in dollars
    addon_enabled,   \* per-run input: add-on toggle
    rule,            \* the rule number this run evaluates
    pc,              \* "load", "loop" (inside a stepwise evaluator) or "done"
    loop_i,          \* stepwise evaluators: rows of the sorted frame done so far
    violations,      \* stepwise evaluators: the violations list so far
    flagged,         \* stepwise evaluators: per row done, whether its window met the conditions
    result,          \* the dictionary the evaluator returned
    phases,          \* Rule 3: the labeled phase tables, in insertion order
    results,         \* the list of rule results collected so far
    df_with_sl_tp,   \* Rule 4: the trades with Stop Loss and Take Profit, with their distances
    pattern_groups,  \* Rule 4: the groups find_pattern_groups recorded so far
    used_indices,    \* Rule 4: the index labels find_pattern_groups has used
    active_rules,    \* execute_all_rules: the rule numbers to evaluate
    locals           \* stepwise functions: the local variables of the call, by name

vars == <<df, account_type, account_equity, addon_enabled, rule, pc,
          loop_i, violations, flagged, result, phases, results, df_with_sl_tp, pattern_groups, used_indices, active_rules, locals>>

-----------------------------------------------------------------------------
(* Time                                                                    *)

MsPerSecond == 1000

Hour == 3600 * MsPerSecond
Day == 24 * Hour
Week == 7 * Day

\* The instant `ms` milliseconds after d days, h hours, m minutes and s
\* seconds from the reference Monday 00:00 UTC (d = 4 is that week's Friday).
At(d, h, m, s, ms) == (((d * 24 + h) * 60 + m) * 60 + s) * MsPerSecond + ms

Max(a, b) == IF a >= b THEN a ELSE b
Min(a, b) == IF a <= b THEN a ELSE b
Abs(x) == IF x < 0 THEN -x ELSE x

-----------------------------------------------------------------------------
(* Exact decimal arithmetic                                                *)

RECURSIVE GCD(_, _)
GCD(a, b) == IF b = 0 THEN a ELSE GCD(b, a % b)

NaN == <<0, 0>>
isna(x) == x[2] = 0
notna(x) == x[2] # 0

\* n / d in lowest terms (d > 0).
Rat(n, d) == LET g == GCD(Abs(n), d) IN <<n \div g, d \div g>>
Num(n) == <<n, 1>>

RMul(a, b) ==
    LET g1 == GCD(Abs(a[1]), b[2])
        g2 == GCD(Abs(b[1]), a[2])
    IN  <<(a[1] \div g1) * (b[1] \div g2), (a[2] \div g2) * (b[2] \div g1)>>
RInv(a) == IF a[1] > 0 THEN <<a[2], a[1]>> ELSE <<-a[2], -a[1]>>
RDiv(a, b) == RMul(a, RInv(b))
RAdd(a, b) ==
    LET g == GCD(a[2], b[2])
    IN  Rat(a[1] * (b[2] \div g) + b[1] * (a[2] \div g), (a[2] \div g) * b[2])
RNeg(a) == <<-a[1], a[2]>>
RSub(a, b) == RAdd(a, RNeg(b))
RAbs(a) == <<Abs(a[1]), a[2]>>
RLt(a, b) == a[1] * b[2] < b[1] * a[2]
RLe(a, b) == a[1] * b[2] <= b[1] * a[2]
RGt(a, b) == RLt(b, a)
RGe(a, b) == RLe(b, a)

-----------------------------------------------------------------------------
(* Python floats (IEEE 754 binary64, round to nearest, ties to even)       *)
(*                                                                         *)
(* Every arithmetic operation of the rules on lots, prices, money and      *)
(* percentages is a binary64 operation: the exact result, rounded.  The    *)
(* mantissas need 53 bits, so they are kept as naturals of any size:       *)
(* little-endian sequences of 13-bit limbs, the most significant limb      *)
(* nonzero; zero is <<>>.                                                  *)

\* Body applied to the value of e, which is computed once.
Value(e, Body(_)) == CHOOSE r \in {Body(v) : v \in {e}} : TRUE

Limb == 2^13

RECURSIVE Pow2(_)
Pow2(k) == IF k = 0 THEN 1 ELSE 2 * Pow2(k - 1)

\* a without its most significant zero limbs.
BNorm(a) ==
    Value(a, LAMBDA v :
        SubSeq(v, 1, Cardinality({k \in 1..Len(v) : \E j \in k..Len(v) : v[j] # 0})))

\* The natural number 0 <= n < 2^31.
BFromInt(n) == BNorm(<<n % Limb, (n \div Limb) % Limb, n \div (Limb * Limb)>>)

LimbAt(a, k) == IF k <= Len(a) THEN a[k] ELSE 0

RECURSIVE BAddFrom(_, _, _, _)
BAddFrom(a, b, k, carry) ==
    IF k > Len(a) /\ k > Len(b)
    THEN IF carry = 0 THEN <<>> ELSE <<carry>>
    ELSE Value(LimbAt(a, k) + LimbAt(b, k) + carry, LAMBDA t :
             <<t % Limb>> \o BAddFrom(a, b, k + 1, t \div Limb))
BAdd(a, b) == Value(<<a, b>>, LAMBDA p : BAddFrom(p[1], p[2], 1, 0))

\* a - b for a >= b.
RECURSIVE BSubFrom(_, _, _, _)
BSubFrom(a, b, k, borrow) ==
    IF k > Len(a) THEN <<>>
    ELSE Value(a[k] - LimbAt(b, k) - borrow, LAMBDA t :
             <<t % Limb>> \o BSubFrom(a, b, k + 1, IF t < 0 THEN 1 ELSE 0))
BSub(a, b) == BNorm(Value(<<a, b>>, LAMBDA p : BSubFrom(p[1], p[2], 1, 0)))

\* -1, 0 or 1 as a < b, a = b or a > b.
BCmp(a, b) ==
    Value(<<a, b>>, LAMBDA p :
        IF Len(p[1]) # Len(p[2]) THEN (IF Len(p[1]) < Len(p[2]) THEN -1 ELSE 1)
        ELSE IF p[1] = p[2] THEN 0
        ELSE Value(CHOOSE k \in 1..Len(p[1]) :
                       /\ p[1][k] # p[2][k]
                       /\ \A j \in (k + 1)..Len(p[1]) : p[1][j] = p[2][j],
                   LAMBDA k : IF p[1][k] < p[2][k] THEN -1 ELSE 1))

\* a * m for 0 <= m <= Limb.
RECURSIVE BMulSmallFrom(_, _, _, _)
BMulSmallFrom(a, m, k, carry) ==
    IF k > Len(a) THEN <<carry>>
    ELSE Value(a[k] * m + carry, LAMBDA t :
             <<t % Limb>> \o BMulSmallFrom(a, m, k + 1, t \div Limb))
BMulSmall(a, m) == BNorm(Value(<<a, m>>, LAMBDA p : BMulSmallFrom(p[1], p[2], 1, 0)))

\* a * Limb^n.
BShiftLimbs(a, n) ==
    Value(a, LAMBDA v : IF v = <<>> THEN <<>> ELSE [k \in 1..n |-> 0] \o v)

RECURSIVE BMulFrom(_, _, _)
BMulFrom(a, b, k) ==
    IF k > Len(b) THEN <<>>
    ELSE BAdd(BShiftLimbs(BMulSmall(a, b[k]), k - 1), BMulFrom(a, b, k + 1))
BMul(a, b) == Value(<<a, b>>, LAMBDA p : BMulFrom(p[1], p[2], 1))

\* <<a div d, a mod d>> for 0 < d < 2^18: the limbs of a from limb k down,
\* with r the remainder and q the quotient limbs so far.
RECURSIVE BDivSmallFrom(_, _, _, _, _)
BDivSmallFrom(a, d, k, r, q) ==
    IF k = 0 THEN <<BNorm(q), r>>
    ELSE Value(r * Limb + a[k], LAMBDA t :
             BDivSmallFrom(a, d, k - 1, t % d, <<t \div d>> \o q))
BDivSmall(a, d) ==
    Value(<<a, d>>, LAMBDA p : BDivSmallFrom(p[1], p[2], Len(p[1]), 0, <<>>))

\* a * 2^s.
BShl(a, s) ==
    Value(<<a, s>>, LAMBDA p :
        BShiftLimbs(BMulSmall(p[1], Pow2(p[2] % 13)), p[2] \div 13))

\* <<a div 2^s, 1 if a mod 2^s > 0 else 0>>
BShr(a, s) ==
    Value(<<a, s \div 13, Pow2(s % 13)>>, LAMBDA p :
        Value(BDivSmall(SubSeq(p[1], p[2] + 1, Len(p[1])), p[3]), LAMBDA qr :
            <<qr[1],
              IF qr[2] # 0 \/ \E k \in 1..Min(p[2], Len(p[1])) : p[1][k] # 0
              THEN 1 ELSE 0>>))

RECURSIVE IntBitLen(_)
IntBitLen(n) == IF n = 0 THEN 0 ELSE 1 + IntBitLen(n \div 2)
BBitLen(a) ==
    Value(a, LAMBDA v :
        IF v = <<>> THEN 0 ELSE 13 * (Len(v) - 1) + IntBitLen(v[Len(v)]))
BOdd(a) == Value(a, LAMBDA v : v # <<>> /\ v[1] % 2 = 1)

(* binary64: [s |-> sign, m |-> 53-bit mantissa or <<>> for zero, e |-> exponent] *)
(* stands for s * m * 2^e.                                                      *)
FZero == [s |-> 1, m |-> <<>>, e |-> 0]

\* The binary64 nearest to s * (M + f) * 2^e, ties to even, where 0 <= f < 1
\* and sticky = 1 iff f > 0 (then M has at least 55 bits).
RoundTo53(s, M, e, sticky) ==
    Value(<<M, BBitLen(M)>>, LAMBDA p :
        IF p[1] = <<>> THEN FZero
        ELSE IF p[2] <= 53
        THEN [s |-> s, m |-> BShl(p[1], 53 - p[2]), e |-> e - (53 - p[2])]
        ELSE \* top[1] is the leading 54 bits, its last bit the first one dropped
             Value(BShr(p[1], p[2] - 54), LAMBDA top :
             Value(BShr(top[1], 1)[1], LAMBDA q :
             Value(IF BOdd(top[1]) /\ (top[2] = 1 \/ sticky = 1 \/ BOdd(q))
                   THEN BAdd(q, <<1>>) ELSE q, LAMBDA q1 :
                 IF BBitLen(q1) > 53
                 THEN [s |-> s, m |-> BShr(q1, 1)[1], e |-> e + (p[2] - 53) + 1]
                 ELSE [s |-> s, m |-> q1, e |-> e + (p[2] - 53)]))))

\* The float of the integer n.
FromInt(n) == RoundTo53(IF n < 0 THEN -1 ELSE 1, BFromInt(IF n < 0 THEN -n ELSE n), 0, 0)

\* x / d for an integer 0 < d < 2^18.
FDivInt(x, d) ==
    Value(<<x, d>>, LAMBDA p :
        Value(BDivSmall(BShl(p[1].m, 20), p[2]), LAMBDA qr :
            RoundTo53(p[1].s, qr[1], p[1].e - 20, IF qr[2] = 0 THEN 0 ELSE 1)))

\* The binary64 a decimal literal n/d parses to, 0 < d < 2^18.
FromDec(n, d) ==
    Value(BDivSmall(BShl(BFromInt(IF n < 0 THEN -n ELSE n), 73), d), LAMBDA qr :
        RoundTo53(IF n < 0 THEN -1 ELSE 1, qr[1], -73, IF qr[2] = 0 THEN 0 ELSE 1))

\* The binary64 that the decimal text x = <<n, d>> of the file parses to.
float(x) == FromDec(x[1], x[2])

FMul(x, y) ==
    Value(<<x, y>>, LAMBDA p :
        RoundTo53(p[1].s * p[2].s, BMul(p[1].m, p[2].m), p[1].e + p[2].e, 0))

FNeg(x) == Value(x, LAMBDA v : [v EXCEPT !.s = -v.s])
FAbs(x) == Value(x, LAMBDA v : [v EXCEPT !.s = 1])

\* x + y for x and y of sign sx and sy and of magnitudes X * 2^e and Y * 2^e.
AddAligned(sx, X, sy, Y, e) ==
    IF sx = sy THEN RoundTo53(sx, BAdd(X, Y), e, 0)
    ELSE Value(BCmp(X, Y), LAMBDA c :
             IF c = 0 THEN FZero
             ELSE IF c > 0 THEN RoundTo53(sx, BSub(X, Y), e, 0)
             ELSE RoundTo53(sy, BSub(Y, X), e, 0))

FAdd(x, y) ==
    Value(<<x, y>>, LAMBDA p :
        IF p[1].m = <<>> THEN p[2]
        ELSE IF p[2].m = <<>> THEN p[1]
        ELSE Value(<<BShl(p[1].m, p[1].e - Min(p[1].e, p[2].e)),
                     BShl(p[2].m, p[2].e - Min(p[1].e, p[2].e))>>, LAMBDA a :
                 AddAligned(p[1].s, a[1], p[2].s, a[2], Min(p[1].e, p[2].e))))
FSub(x, y) == FAdd(x, FNeg(y))

\* n more bits of a quotient by b: q the bits so far, r < b the remainder.
RECURSIVE BDivBits(_, _, _, _)
BDivBits(r, b, n, q) ==
    IF n = 0 THEN <<q, r>>
    ELSE Value(<<BShl(r, 1), BShl(q, 1)>>, LAMBDA p :
             IF BCmp(p[1], b) >= 0
             THEN Value(<<BSub(p[1], b), BAdd(p[2], <<1>>)>>, LAMBDA t :
                      BDivBits(t[1], b, n - 1, t[2]))
             ELSE BDivBits(p[1], b, n - 1, p[2]))

\* c more groups of 8 bits of a quotient by b.
RECURSIVE BDivGroups(_, _, _, _)
BDivGroups(r, b, c, q) ==
    IF c = 0 THEN <<q, r>>
    ELSE Value(BDivBits(r, b, 8, <<>>), LAMBDA qr :
             Value(BAdd(BShl(q, 8), qr[1]), LAMBDA q1 :
                 BDivGroups(qr[2], b, c - 1, q1)))

\* x / y for y # 0: the quotient of the mantissas to 56 binary places.
FDiv(x, y) ==
    Value(<<x, y>>, LAMBDA p :
        IF p[1].m = <<>> THEN FZero
        ELSE Value(IF BCmp(p[1].m, p[2].m) >= 0
                   THEN BDivGroups(BSub(p[1].m, p[2].m), p[2].m, 7, <<1>>)
                   ELSE BDivGroups(p[1].m, p[2].m, 7, <<>>), LAMBDA qr :
                 RoundTo53(p[1].s * p[2].s, qr[1], p[1].e - p[2].e - 56,
                           IF qr[2] = <<>> THEN 0 ELSE 1)))

\* -1, 0 or 1 as x < y, x = y or x > y.
FCmpAbs(x, y) ==
    IF x.m = <<>> THEN (IF y.m = <<>> THEN 0 ELSE -1)
    ELSE IF y.m = <<>> THEN 1
    ELSE IF x.e < y.e THEN -1
    ELSE IF x.e > y.e THEN 1
    ELSE BCmp(x.m, y.m)
FSign(x) == IF x.m = <<>> THEN 0 ELSE x.s
FCmp(x, y) ==
    Value(<<x, y>>, LAMBDA p :
        IF FSign(p[1]) < FSign(p[2]) THEN -1
        ELSE IF FSign(p[1]) > FSign(p[2]) THEN 1
        ELSE IF FSign(p[1]) = 0 THEN 0
        ELSE FSign(p[1]) * FCmpAbs(p[1], p[2]))
FGt(x, y) == FCmp(x, y) > 0
FGe(x, y) == FCmp(x, y) >= 0

-----------------------------------------------------------------------------
(* config.py                                                               *)

ACCOUNT_TYPES ==
    [t \in {"2-Step Phase 1", "2-Step Phase 2", "Funded Phase", "Direct Funding"} |->
        CASE t = "2-Step Phase 1" -> [leverage |-> 100, min_trading_days |-> 0]
          [] t = "2-Step Phase 2" -> [leverage |-> 100, min_trading_days |-> 0]
          [] t = "Funded Phase"   -> [leverage |-> 50,  min_trading_days |-> 4]
          [] t = "Direct Funding" -> [leverage |-> 30,  min_trading_days |-> 7]]

CONTRACT_SIZE_STANDARD == 100000
HEDGING_MIN_OVERLAP_SECONDS == 1
TOLERANCE_TIME == 1

STATUS_PASSED == "PASSED"
STATUS_VIOLATED == "VIOLATED"
STATUS_NOT_TESTABLE == "NOT_TESTABLE"

NoResult == [status |-> "NONE", violations |-> <<>>]

-----------------------------------------------------------------------------
(* Frames: sequences of labelled rows                                      *)

\* The rows of frame f that satisfy Test, in order (df[mask]).
Filter(f, Test(_)) == SelectSeq(f, Test)

\* DataFrame.sort_values('Open Time'): insertion of each row behind the rows
\* that open no later, so rows with equal open times keep their order.
RECURSIVE insert_by_open(_, _)
insert_by_open(s, r) ==
    IF s = <<>> THEN <<r>>
    ELSE IF s[Len(s)].open_time <= r.open_time THEN Append(s, r)
    ELSE Append(insert_by_open(SubSeq(s, 1, Len(s) - 1), r), s[Len(s)])

RECURSIVE sort_values(_)
sort_values(f) ==
    IF f = <<>> THEN <<>>
    ELSE insert_by_open(sort_values(SubSeq(f, 1, Len(f) - 1)), f[Len(f)])

\* Series.unique(): the distinct values in order of first appearance.
RECURSIVE unique(_)
unique(s) ==
    IF s = <<>> THEN <<>>
    ELSE LET u == unique(SubSeq(s, 1, Len(s) - 1))
         IN  IF \E k \in 1..Len(u) : u[k] = s[Len(s)] THEN u ELSE Append(u, s[Len(s)])

Column(f, c) == [k \in 1..Len(f) |-> f[k][c]]

-----------------------------------------------------------------------------
(* Ingestion                                                               *)

\* utils.load_csv on one raw row: open and close are swapped when open is
\* after close, and the duration is derived from the times after the swap.
\* The index label is the row's position in the file.
load_row(raw, label) ==
    LET swapped == raw.open_time > raw.close_time
        o == IF swapped THEN raw.close_time ELSE raw.open_time
        c == IF swapped THEN raw.open_time ELSE raw.close_time
    IN  [idx |-> label, position_id |-> raw.position_id,
         instrument |-> raw.instrument, side |-> raw.side,
         open_time |-> o, close_time |-> c,
         lots |-> raw.lots, open_price |-> raw.open_price,
         stop_loss |-> raw.stop_loss, take_profit |-> raw.take_profit,
         duration_ms |-> c - o]

RawRow(pid, ins, sd, o, c, l, p, sl, tp) ==
    [position_id |-> pid, instrument |-> ins, side |-> sd,
     open_time |-> o, close_time |-> c, lots |-> l, open_price |-> p,
     stop_loss |-> sl, take_profit |-> tp]

-----------------------------------------------------------------------------
(* utils.py: interval primitive                                            *)

\* Mutant: an overlap of exactly one second is not an overlap.
check_time_overlap_strict(start1, end1, start2, end2) ==
    LET overlap_ms == Min(end1, end2) - Max(start1, start2)
    IN  [has_overlap |-> overlap_ms > HEDGING_MIN_OVERLAP_SECONDS * MsPerSecond,
         overlap_ms |-> Max(0, overlap_ms)]

\* overlap_seconds is kept in milliseconds; the comparison with the
\* one-second minimum is exact.
check_time_overlap(start1, end1, start2, end2) ==
    LET overlap_start == Max(start1, start2)
        overlap_end == Min(end1, end2)
        overlap_ms == overlap_end - overlap_start
    IN  [has_overlap |-> overlap_ms >= HEDGING_MIN_OVERLAP_SECONDS * MsPerSecond,
         overlap_ms |-> Max(0, overlap_ms)]

-----------------------------------------------------------------------------
(* Rule 1: Hedging Ban                                                     *)

\* The double loop over the sorted trades of one instrument, from loop
\* position (a, b) on: trade1 = s[a], trade2 = s[b].
RECURSIVE hedging_pairs(_, _, _)
hedging_pairs(s, a, b) ==
    IF a > Len(s) THEN <<>>
    ELSE IF b > Len(s) THEN hedging_pairs(s, a + 1, 1)
    ELSE LET trade1 == s[a]
             trade2 == s[b]
             ov == check_time_overlap(trade1.open_time, trade1.close_time,
                                      trade2.open_time, trade2.close_time)
             found ==
                 IF trade1.idx >= trade2.idx THEN <<>>
                 ELSE IF trade1.side = trade2.side THEN <<>>
                 ELSE IF ov.has_overlap
                      THEN <<[Instrument |-> trade1.instrument,
                              Trade1_idx |-> trade1.idx, Trade2_idx |-> trade2.idx,
                              Trade1_ID |-> trade1.position_id,
                              Trade2_ID |-> trade2.position_id,
                              Overlap_ms |-> ov.overlap_ms]>>
                      ELSE <<>>
         IN  found \o hedging_pairs(s, a, b + 1)

RECURSIVE hedging_instruments(_, _, _)
hedging_instruments(d, instruments, k) ==
    IF k > Len(instruments) THEN <<>>
    ELSE LET IsInstrument(r) == r.instrument = instruments[k]
             instrument_trades == sort_values(Filter(d, IsInstrument))
         IN  hedging_pairs(instrument_trades, 1, 1)
                 \o hedging_instruments(d, instruments, k + 1)

check_hedging_violation(d) ==
    LET found == hedging_instruments(d, unique(Column(d, "instrument")), 1)
    IN  [rule_number |-> 1,
         status |-> IF Len(found) > 0 THEN STATUS_VIOLATED ELSE STATUS_PASSED,
         violations |-> found]

-----------------------------------------------------------------------------
(* utils.py: weekend primitives                                            *)

\* datetime.weekday() (0 = Monday) and datetime.hour of a UTC instant.
weekday(dt) == (dt \div Day) % 7
hour_of(dt) == (dt % Day) \div Hour

\* Mutant: the Friday part of the window starts an hour early.
is_weekend_early(dt) ==
    \/ weekday(dt) = 4 /\ hour_of(dt) >= 21
    \/ weekday(dt) = 5
    \/ weekday(dt) = 6 /\ hour_of(dt) < 22

\* Mutant: the Sunday part of the window ends an hour late.
is_weekend_late(dt) ==
    \/ weekday(dt) = 4 /\ hour_of(dt) >= 22
    \/ weekday(dt) = 5
    \/ weekday(dt) = 6 /\ hour_of(dt) < 23

is_weekend(dt) ==
    LET day_of_week == weekday(dt)
        hour == hour_of(dt)
    IN  IF day_of_week = 4 /\ hour >= 22 THEN TRUE
        ELSE IF day_of_week = 5 THEN TRUE
        ELSE IF day_of_week = 6 /\ hour < 22 THEN TRUE
        ELSE FALSE

\* The while loop of get_weekend_windows, from `current` (a Friday 00:00) on.
RECURSIVE weekend_windows_from(_, _, _)
weekend_windows_from(current, start_date, end_date) ==
    IF ~(current <= end_date + 7 * Day) THEN <<>>
    ELSE LET weekend_start == current + 22 * Hour
             weekend_end == weekend_start + 2 * Day
             here == IF weekend_end >= start_date /\ weekend_start <= end_date
                     THEN <<(<<weekend_start, weekend_end>>)>> ELSE <<>>
         IN  here \o weekend_windows_from(current + 7 * Day, start_date, end_date)

get_weekend_windows(start_date, end_date) ==
    LET midnight == start_date - (start_date % Day)
        days_since_friday == (weekday(midnight) - 4) % 7
        current == midnight - days_since_friday * Day
    IN  weekend_windows_from(current, start_date, end_date)

-----------------------------------------------------------------------------
(* Rule 19: Weekend Trading and Holding                                    *)

SeqMin(s) == CHOOSE x \in {s[k] : k \in 1..Len(s)} : \A k \in 1..Len(s) : x <= s[k]
SeqMax(s) == CHOOSE x \in {s[k] : k \in 1..Len(s)} : \A k \in 1..Len(s) : x >= s[k]

\* The loop over the weekend windows for one trade, with its break.
RECURSIVE held_details(_, _, _)
held_details(trade, weekend_windows, k) ==
    IF k > Len(weekend_windows) THEN <<>>
    ELSE LET weekend_start == weekend_windows[k][1]
             weekend_end == weekend_windows[k][2]
             ov == check_time_overlap(trade.open_time, trade.close_time,
                                      weekend_start, weekend_end)
         IN  IF ov.has_overlap /\ ov.overlap_ms >= TOLERANCE_TIME * MsPerSecond
             THEN <<(<<"HELD", weekend_start>>)>>
             ELSE held_details(trade, weekend_windows, k + 1)

\* Mutant: the HELD check runs whether or not OPEN or CLOSE was flagged.
weekend_violation_details_always_held(trade, weekend_windows) ==
    (IF is_weekend(trade.open_time) THEN <<(<<"OPEN", trade.open_time>>)>> ELSE <<>>)
        \o (IF is_weekend(trade.close_time) THEN <<(<<"CLOSE", trade.close_time>>)>> ELSE <<>>)
        \o held_details(trade, weekend_windows, 1)

weekend_violation_details(trade, weekend_windows) ==
    LET opened == IF is_weekend(trade.open_time)
                  THEN <<(<<"OPEN", trade.open_time>>)>> ELSE <<>>
        closed == IF is_weekend(trade.close_time)
                  THEN <<(<<"CLOSE", trade.close_time>>)>> ELSE <<>>
        flagged_so_far == opened \o closed
    IN  IF flagged_so_far = <<>>
        THEN held_details(trade, weekend_windows, 1)
        ELSE flagged_so_far

RECURSIVE weekend_trades(_, _, _)
weekend_trades(d, weekend_windows, k) ==
    IF k > Len(d) THEN <<>>
    ELSE LET trade == d[k]
             details == weekend_violation_details(trade, weekend_windows)
         IN  [n \in 1..Len(details) |->
                 [Position_ID |-> trade.position_id,
                  Event_Type |-> details[n][1],
                  Event_Time |-> details[n][2]]]
             \o weekend_trades(d, weekend_windows, k + 1)

\* The NOT_TESTABLE dictionary has no 'violations' key; it is an empty list here.
check_weekend_trading(d, addon) ==
    IF addon
    THEN [rule_number |-> 19, status |-> STATUS_NOT_TESTABLE, violations |-> <<>>]
    ELSE LET min_date == SeqMin(Column(d, "open_time"))
             max_date == SeqMax(Column(d, "close_time"))
             weekend_windows == get_weekend_windows(min_date, max_date)
             found == weekend_trades(d, weekend_windows, 1)
         IN  [rule_number |-> 19,
              status |-> IF found # <<>> THEN STATUS_VIOLATED ELSE STATUS_PASSED,
              violations |-> found]

-----------------------------------------------------------------------------
(* Rule 15: One-Sided Bets                                                 *)

MAX_SAME_DIRECTION_TRADES == 2

Directions == <<"BUY", "SELL">>

\* Mutant: two concurrent same-direction trades already violate.
RECURSIVE one_sided_trades_two(_, _, _, _, _)
one_sided_trades_two(direction_trades, instrument, direction, k, acc) ==
    IF k > Len(direction_trades) THEN acc
    ELSE LET trade == direction_trades[k]
             IsOpenAt(r) == r.open_time <= trade.open_time /\ r.close_time > trade.open_time
             overlapping == Filter(direction_trades, IsOpenAt)
             violation_key == <<instrument, direction, trade.open_time>>
         IN  one_sided_trades_two(direction_trades, instrument, direction, k + 1,
                 IF Len(overlapping) >= MAX_SAME_DIRECTION_TRADES
                    /\ ~\E n \in 1..Len(acc) : acc[n].key = violation_key
                 THEN Append(acc, [key |-> violation_key, Instrument |-> instrument,
                                   Direction |-> direction, Timestamp |-> trade.open_time,
                                   Overlapping_Trades_Count |-> Len(overlapping),
                                   Position_IDs |-> Column(overlapping, "position_id")])
                 ELSE acc)

\* Mutant: a trade still counts as open at the instant it closes.
RECURSIVE one_sided_trades_closed(_, _, _, _, _)
one_sided_trades_closed(direction_trades, instrument, direction, k, acc) ==
    IF k > Len(direction_trades) THEN acc
    ELSE LET trade == direction_trades[k]
             IsOpenAt(r) == r.open_time <= trade.open_time /\ r.close_time >= trade.open_time
             overlapping == Filter(direction_trades, IsOpenAt)
             violation_key == <<instrument, direction, trade.open_time>>
         IN  one_sided_trades_closed(direction_trades, instrument, direction, k + 1,
                 IF Len(overlapping) > MAX_SAME_DIRECTION_TRADES
                    /\ ~\E n \in 1..Len(acc) : acc[n].key = violation_key
                 THEN Append(acc, [key |-> violation_key, Instrument |-> instrument,
                                   Direction |-> direction, Timestamp |-> trade.open_time,
                                   Overlapping_Trades_Count |-> Len(overlapping),
                                   Position_IDs |-> Column(overlapping, "position_id")])
                 ELSE acc)

\* The loop over the sorted trades of one instrument and direction; acc is
\* the violations list, which the duplicate test reads.
RECURSIVE one_sided_trades(_, _, _, _, _)
one_sided_trades(direction_trades, instrument, direction, k, acc) ==
    IF k > Len(direction_trades) THEN acc
    ELSE LET trade == direction_trades[k]
             IsOpenAt(r) == r.open_time <= trade.open_time /\ r.close_time > trade.open_time
             overlapping == Filter(direction_trades, IsOpenAt)
             violation_key == <<instrument, direction, trade.open_time>>
         IN  one_sided_trades(direction_trades, instrument, direction, k + 1,
                 IF Len(overlapping) > MAX_SAME_DIRECTION_TRADES
                    /\ ~\E n \in 1..Len(acc) : acc[n].key = violation_key
                 THEN Append(acc, [key |-> violation_key, Instrument |-> instrument,
                                   Direction |-> direction, Timestamp |-> trade.open_time,
                                   Overlapping_Trades_Count |-> Len(overlapping),
                                   Position_IDs |-> Column(overlapping, "position_id")])
                 ELSE acc)

\* The loops over the instruments (k) and the two directions (m).
RECURSIVE one_sided_groups(_, _, _, _, _)
one_sided_groups(d, instruments, k, m, acc) ==
    IF k > Len(instruments) THEN acc
    ELSE IF m > Len(Directions) THEN one_sided_groups(d, instruments, k + 1, 1, acc)
    ELSE LET IsInstrument(r) == r.instrument = instruments[k]
             instrument_trades == Filter(d, IsInstrument)
             IsDirection(r) == r.side = Directions[m]
             direction_trades == Filter(instrument_trades, IsDirection)
         IN  one_sided_groups(d, instruments, k, m + 1,
                 IF Len(direction_trades) < 3 THEN acc
                 ELSE one_sided_trades(sort_values(direction_trades),
                                       instruments[k], Directions[m], 1, acc))

check_one_sided_bets(d) ==
    LET found == one_sided_groups(d, unique(Column(d, "instrument")), 1, 1, <<>>)
    IN  [rule_number |-> 15,
         status |-> IF found # <<>> THEN STATUS_VIOLATED ELSE STATUS_PASSED,
         violations |-> found]

-----------------------------------------------------------------------------
(* Rule 13: maximum margin usage                                           *)

\* config.MAX_MARGIN_USAGE_PERCENT, the literal 80.1.
MAX_MARGIN_USAGE_PERCENT == <<801, 10>>

\* utils.calculate_margin_required on floats lots and price.
calculate_margin_required(lots, instrument, price, leverage) ==
    LET contract_size == FromInt(CONTRACT_SIZE_STANDARD)
        notional_value == FMul(FMul(lots, contract_size), price)
    IN  FDivInt(notional_value, leverage)

\* list.sort(key=timestamp): stable.
RECURSIVE insert_by_time(_, _)
insert_by_time(s, p) ==
    IF s = <<>> THEN <<p>>
    ELSE IF s[Len(s)].timestamp <= p.timestamp THEN Append(s, p)
    ELSE Append(insert_by_time(SubSeq(s, 1, Len(s) - 1), p), s[Len(s)])

\* The check points of the first k rows of the sorted frame: an open and a
\* close per trade, sorted by time.
RECURSIVE check_points(_, _)
check_points(df_sorted, k) ==
    IF k = 0 THEN <<>>
    ELSE LET trade == df_sorted[k]
             before == check_points(df_sorted, k - 1)
             opened == [event_type |-> "open", timestamp |-> trade.open_time,
                        current_trade |-> trade]
             closed == [event_type |-> "close", timestamp |-> trade.close_time,
                        current_trade |-> trade]
         IN  insert_by_time(insert_by_time(before, opened), closed)

\* total_margin after the first k open trades, starting from 0.
RECURSIVE total_margin_of(_, _, _)
total_margin_of(open_trades, leverage, k) ==
    IF k = 0 THEN FZero
    ELSE FAdd(total_margin_of(open_trades, leverage, k - 1),
              calculate_margin_required(float(open_trades[k].lots),
                                        open_trades[k].instrument,
                                        float(open_trades[k].open_price),
                                        leverage))

margin_usage_percent_of(open_trades, leverage, equity) ==
    IF equity > 0
    THEN FMul(FDivInt(total_margin_of(open_trades, leverage, Len(open_trades)), equity),
              FromInt(100))
    ELSE FZero

\* The violations of check points k.. of the list.
RECURSIVE margin_violations(_, _, _, _, _)
margin_violations(df_sorted, points, k, equity, leverage) ==
    IF k > Len(points) THEN <<>>
    ELSE LET timestamp == points[k].timestamp
             IsOpen(t) == t.open_time <= timestamp /\ t.close_time > timestamp
             open_trades == Filter(df_sorted, IsOpen)
             rest == margin_violations(df_sorted, points, k + 1, equity, leverage)
         IN  IF Len(open_trades) = 0 THEN rest
             ELSE Value(margin_usage_percent_of(open_trades, leverage, equity),
                        LAMBDA usage :
                      IF FGt(usage, float(MAX_MARGIN_USAGE_PERCENT))
                      THEN <<[Timestamp |-> timestamp,
                              Event |-> points[k].event_type,
                              Trigger_Position_ID |-> points[k].current_trade.position_id,
                              Open_Positions |-> Len(open_trades),
                              Margin_Usage_Percent |-> usage]>> \o rest
                      ELSE rest)

check_margin_usage(d, equity, type) ==
    LET leverage == ACCOUNT_TYPES[type].leverage
        df_sorted == sort_values(d)
        points == check_points(df_sorted, Len(df_sorted))
        found == margin_violations(df_sorted, points, 1, equity, leverage)
    IN  [status |-> IF found # <<>> THEN STATUS_VIOLATED ELSE STATUS_PASSED,
         violations |-> found]

-----------------------------------------------------------------------------
(* Rule 14: gambling definition                                            *)

GAMBLING_THRESHOLD_SECONDS == 60

\* config.GAMBLING_THRESHOLD_PERCENT, the literal 50.0.
GAMBLING_THRESHOLD_PERCENT == <<50, 1>>

\* Mutant: the threshold without the time tolerance.
is_short_trade_no_tolerance(trade) ==
    trade.duration_ms < GAMBLING_THRESHOLD_SECONDS * MsPerSecond

\* df['Duration_Seconds'] < threshold, on one row.
is_short_trade(trade) ==
    LET threshold == GAMBLING_THRESHOLD_SECONDS + TOLERANCE_TIME
    IN  trade.duration_ms < threshold * MsPerSecond

check_gambling(d) ==
    LET total_trades == Len(d)
        short_trades == Filter(d, is_short_trade)
        short_trade_count == Len(short_trades)
        short_trade_percent ==
            IF total_trades > 0
            THEN FMul(FDivInt(FromInt(short_trade_count), total_trades), FromInt(100))
            ELSE FZero
        is_violation == FGt(short_trade_percent, float(GAMBLING_THRESHOLD_PERCENT))
    IN  [status |-> IF is_violation THEN STATUS_VIOLATED ELSE STATUS_PASSED,
         violations |-> <<>>,
         total_trades |-> total_trades,
         short_trades_count |-> short_trade_count,
         short_trades_percent |-> short_trade_percent,
         short_trades |-> short_trades]

-----------------------------------------------------------------------------
(* utils.py: risk of a trade                                               *)

\* config.VALUE_PER_POINT: the literal of each configured instrument.
VALUE_PER_POINT ==
    [k \in {"EURUSD", "GBPUSD", "USDJPY", "USDCHF", "AUDUSD", "NZDUSD", "USDCAD",
            "US30", "NAS100", "SPX500", "GER40", "UK100",
            "XAUUSD", "XAGUSD", "USOIL", "UKOIL"} |->
        IF k = "NAS100" THEN <<2, 10>> ELSE <<1, 10>>]

\* The symbols of the model that carry a broker suffix, with the configured
\* symbol they start with.
SuffixedSymbols == [s \in {"XAUUSD.pro"} |-> "XAUUSD"]

\* str.startswith, on the symbols of the model.
startswith(s, prefix) ==
    s = prefix \/ (s \in DOMAIN SuffixedSymbols /\ SuffixedSymbols[s] = prefix)

get_value_per_point(instrument) ==
    IF instrument \in DOMAIN VALUE_PER_POINT THEN VALUE_PER_POINT[instrument]
    ELSE IF \E key \in DOMAIN VALUE_PER_POINT : startswith(instrument, key)
    THEN VALUE_PER_POINT[CHOOSE key \in DOMAIN VALUE_PER_POINT : startswith(instrument, key)]
    ELSE <<1, 10>>

\* np.nan as a float result.
FNaN == [s |-> 0, m |-> <<>>, e |-> 0]
f_notna(x) == x.s # 0

\* utils.calculate_trade_risk: [risk_dollars, risk_percent], both NaN when
\* the stop loss is absent or zero.
calculate_trade_risk(entry_price, stop_loss, lots, instrument, equity) ==
    IF isna(stop_loss) \/ stop_loss[1] = 0
    THEN [risk_dollars |-> FNaN, risk_percent |-> FNaN]
    ELSE LET value_per_point == float(get_value_per_point(instrument))
             sl_distance == FAbs(FSub(float(entry_price), float(stop_loss)))
         IN  Value(FMul(FMul(FMul(sl_distance, float(lots)), value_per_point), FromInt(100)),
                   LAMBDA risk_dollars :
                 [risk_dollars |-> risk_dollars,
                  risk_percent |->
                      IF equity > 0 THEN FMul(FDivInt(risk_dollars, equity), FromInt(100))
                      ELSE FNaN])

-----------------------------------------------------------------------------
(* Rule 12: all-or-nothing trading                                         *)

\* config.MAX_RISK_PERCENT, the literal 100.0.
MAX_RISK_PERCENT == <<100, 1>>

has_stop_loss(trade) == notna(trade.stop_loss)

\* The violations of rows k.. of the frame of trades with a stop loss.
RECURSIVE all_or_nothing_violations(_, _, _)
all_or_nothing_violations(df_with_sl, k, equity) ==
    IF k > Len(df_with_sl) THEN <<>>
    ELSE LET trade == df_with_sl[k]
             rest == all_or_nothing_violations(df_with_sl, k + 1, equity)
         IN  Value(calculate_trade_risk(trade.open_price, trade.stop_loss, trade.lots,
                                        trade.instrument, equity), LAMBDA risk :
                 IF f_notna(risk.risk_percent)
                    /\ FGe(risk.risk_percent, float(MAX_RISK_PERCENT))
                 THEN <<[Position_ID |-> trade.position_id,
                         Instrument |-> trade.instrument,
                         Risk_Dollars |-> risk.risk_dollars,
                         Risk_Percent |-> risk.risk_percent]>> \o rest
                 ELSE rest)

check_all_or_nothing(d, equity, type) ==
    LET df_with_sl == Filter(d, has_stop_loss)
        found == all_or_nothing_violations(df_with_sl, 1, equity)
    IN  IF Len(df_with_sl) = 0
        THEN [status |-> STATUS_NOT_TESTABLE, violations |-> <<>>,
              total_trades |-> Len(d), trades_with_sl |-> 0]
        ELSE [status |-> IF found # <<>> THEN STATUS_VIOLATED ELSE STATUS_PASSED,
              violations |-> found,
              total_trades |-> Len(d), trades_with_sl |-> Len(df_with_sl)]

-----------------------------------------------------------------------------
(* Rule 17: maximum risk per trade idea                                    *)

\* config.MAX_RISK_PERCENT_DIRECT, the literal 2.05.
MAX_RISK_PERCENT_DIRECT == <<205, 100>>
TRADE_IDEA_GAP_SECONDS == 300
TRADE_IDEA_GAP_XAUUSD_SECONDS == 60

\* The symbols of the model in string order: groupby visits its keys sorted.
SortedSymbols == <<"BTCUSD", "EURUSD", "GBPUSD", "NAS100", "XAUUSD", "XAUUSD.pro">>

\* The ideas of the first k rows of one group: a trade joins the current idea
\* when it opens within the threshold of the idea's last trade.
RECURSIVE split_into_ideas(_, _, _)
split_into_ideas(group_sorted, k, time_gap_threshold) ==
    IF k = 0 THEN <<>>
    ELSE LET ideas == split_into_ideas(group_sorted, k - 1, time_gap_threshold)
             trade == group_sorted[k]
         IN  IF ideas = <<>> THEN <<(<<trade>>)>>
             ELSE LET current_idea == ideas[Len(ideas)]
                      last_trade == current_idea[Len(current_idea)]
                      time_gap == trade.open_time - last_trade.open_time
                  IN  IF time_gap <= time_gap_threshold * MsPerSecond
                      THEN [ideas EXCEPT ![Len(ideas)] = Append(current_idea, trade)]
                      ELSE Append(ideas, <<trade>>)

\* The ideas of the groups (instrument, direction) from key n on, in key order.
RECURSIVE ideas_from_group(_, _)
ideas_from_group(df_sorted, n) ==
    IF n > Len(SortedSymbols) * Len(Directions) THEN <<>>
    ELSE LET instrument == SortedSymbols[((n - 1) \div Len(Directions)) + 1]
             direction == Directions[((n - 1) % Len(Directions)) + 1]
             InGroup(t) == t.instrument = instrument /\ t.side = direction
             group_sorted == sort_values(Filter(df_sorted, InGroup))
             time_gap_threshold ==
                 IF startswith(instrument, "XAUUSD") \/ instrument = "XAUUSD"
                 THEN TRADE_IDEA_GAP_XAUUSD_SECONDS
                 ELSE TRADE_IDEA_GAP_SECONDS
         IN  split_into_ideas(group_sorted, Len(group_sorted), time_gap_threshold)
                 \o ideas_from_group(df_sorted, n + 1)

\* The trade ideas, Idea_k being element k.
group_trades_into_ideas(d) == ideas_from_group(sort_values(d), 1)

\* total_risk_dollars after the first k trades of the idea, starting from 0.
RECURSIVE total_risk_dollars_of(_, _, _)
total_risk_dollars_of(idea_trades, k, equity) ==
    IF k = 0 THEN FZero
    ELSE LET trade == idea_trades[k]
             before == total_risk_dollars_of(idea_trades, k - 1, equity)
         IN  Value(calculate_trade_risk(trade.open_price, trade.stop_loss, trade.lots,
                                        trade.instrument, equity).risk_dollars,
                   LAMBDA risk_dollars :
                 IF f_notna(risk_dollars) THEN FAdd(before, risk_dollars) ELSE before)

\* The violations of ideas k.. of the list.
RECURSIVE idea_violations(_, _, _)
idea_violations(trade_ideas, k, equity) ==
    IF k > Len(trade_ideas) THEN <<>>
    ELSE LET idea_trades == trade_ideas[k]
             first_trade == idea_trades[1]
             rest == idea_violations(trade_ideas, k + 1, equity)
         IN  Value(total_risk_dollars_of(idea_trades, Len(idea_trades), equity),
                   LAMBDA total_risk_dollars :
             Value(IF equity > 0
                   THEN FMul(FDivInt(total_risk_dollars, equity), FromInt(100))
                   ELSE FZero,
                   LAMBDA total_risk_percent :
                 IF FGt(total_risk_percent, float(MAX_RISK_PERCENT_DIRECT))
                 THEN <<[Idea_ID |-> k,
                         Instrument |-> first_trade.instrument,
                         Direction |-> first_trade.side,
                         Trade_Count |-> Len(idea_trades),
                         First_Entry_Time |-> first_trade.open_time,
                         Total_Risk_Dollars |-> total_risk_dollars,
                         Total_Risk_Percent |-> total_risk_percent,
                         Position_IDs |-> Column(idea_trades, "position_id")]>> \o rest
                 ELSE rest))

check_max_risk_per_idea(d, equity, type) ==
    LET df_with_sl == Filter(d, has_stop_loss)
        trade_ideas == group_trades_into_ideas(df_with_sl)
        found == idea_violations(trade_ideas, 1, equity)
    IN  IF type # "Direct Funding"
        THEN [status |-> STATUS_NOT_TESTABLE, violations |-> <<>>, total_trades |-> Len(d)]
        ELSE IF Len(df_with_sl) = 0
        THEN [status |-> STATUS_NOT_TESTABLE, violations |-> <<>>, total_trades |-> Len(d),
              trades_with_sl |-> 0]
        ELSE [status |-> IF found # <<>> THEN STATUS_VIOLATED ELSE STATUS_PASSED,
              violations |-> found,
              total_trades |-> Len(d), trades_with_sl |-> Len(df_with_sl),
              trade_ideas_found |-> Len(trade_ideas)]

-----------------------------------------------------------------------------
(* Rule 16: abuse of the simulated environment                             *)

ABUSE_VOLUME_MULTIPLIER == 10

\* config.ABUSE_NO_SL_THRESHOLD, the literal 80.0.
ABUSE_NO_SL_THRESHOLD == <<80, 1>>
ABUSE_WINDOW_HOURS == 24

\* utils.calculate_notional_volume on floats lots and price.  The keys of
\* config.CONTRACT_SIZES are lower-case and the symbol is looked up in upper
\* case, so the contract size is always the standard one.
calculate_notional_volume(lots, instrument, price) ==
    LET contract_size == FromInt(CONTRACT_SIZE_STANDARD)
    IN  FMul(FMul(FAbs(lots), contract_size), price)

\* total_volume after the first k trades of the window, starting from 0.
RECURSIVE total_volume_of(_, _)
total_volume_of(window_trades, k) ==
    IF k = 0 THEN FZero
    ELSE FAdd(total_volume_of(window_trades, k - 1),
              calculate_notional_volume(float(window_trades[k].lots),
                                        window_trades[k].instrument,
                                        float(window_trades[k].open_price)))

no_sl_mask(trade) == isna(trade.stop_loss) \/ trade.stop_loss[1] = 0

\* Mutant: one of the two conditions is enough.
abuse_conditions_either(total_volume, volume_threshold, no_sl_percent) ==
    \/ FGe(total_volume, volume_threshold)
    \/ FGe(no_sl_percent, float(ABUSE_NO_SL_THRESHOLD))

\* volume_exceeds and no_sl_exceeds.
abuse_conditions(total_volume, volume_threshold, no_sl_percent) ==
    /\ FGe(total_volume, volume_threshold)
    /\ FGe(no_sl_percent, float(ABUSE_NO_SL_THRESHOLD))

\* Mutant: a window exactly one hour from a recorded one is a duplicate.
is_duplicate_window_inclusive(recorded, window_start) ==
    \E j \in 1..Len(recorded) :
        Abs(recorded[j].Window_Start - window_start) <= 3600 * MsPerSecond

\* The window starts within one hour of a recorded violation.
is_duplicate_window(recorded, window_start) ==
    \E j \in 1..Len(recorded) :
        Abs(recorded[j].Window_Start - window_start) < 3600 * MsPerSecond

\* One iteration of the loop over df_sorted, for its row k: the window
\* anchored at the row, whether it meets both conditions, and the violations
\* list after the iteration.
abuse_window(df_sorted, k, equity, recorded) ==
    LET window_start == df_sorted[k].open_time
        window_end == window_start + ABUSE_WINDOW_HOURS * Hour
        InWindow(t) == t.open_time >= window_start /\ t.open_time < window_end
        window_trades == Filter(df_sorted, InWindow)
        trades_without_sl == Len(Filter(window_trades, no_sl_mask))
    IN  IF Len(window_trades) = 0 THEN [violating |-> FALSE, violations |-> recorded]
        ELSE Value(<<total_volume_of(window_trades, Len(window_trades)),
                     FMul(FDivInt(FromInt(trades_without_sl), Len(window_trades)),
                          FromInt(100)),
                     FMul(FromInt(equity), FromInt(ABUSE_VOLUME_MULTIPLIER))>>,
                   LAMBDA w :
                 IF abuse_conditions(w[1], w[3], w[2])
                 THEN [violating |-> TRUE,
                       violations |->
                           IF is_duplicate_window(recorded, window_start) THEN recorded
                           ELSE Append(recorded,
                                       [Window_Start |-> window_start,
                                        Window_End |-> window_end,
                                        Trades_In_Window |-> Len(window_trades),
                                        Total_Notional_Volume |-> w[1],
                                        Volume_Threshold |-> w[3],
                                        Trades_Without_SL |-> trades_without_sl,
                                        No_SL_Percent |-> w[2]])]
                 ELSE [violating |-> FALSE, violations |-> recorded])

-----------------------------------------------------------------------------
(* Rule 18: news trading restriction                                       *)

NEWS_BUFFER_SECONDS == 300

\* pd.NaT, the minimum or maximum of an empty column and its date; the date
\* of an instant.
NaT == "NaT"
date(t) == t - (t % Day)

\* fetch_forex_factory_news: the placeholder returns no event for any range.
fetch_forex_factory_news(start_date, end_date) == <<>>

\* instrument[:3] and instrument[3:6] of the symbols of the model.
SymbolParts ==
    [s \in {"EURUSD", "GBPUSD", "BTCUSD", "NAS100", "XAUUSD", "XAUUSD.pro"} |->
        CASE s = "EURUSD" -> <<"EUR", "USD">>
          [] s = "GBPUSD" -> <<"GBP", "USD">>
          [] s = "BTCUSD" -> <<"BTC", "USD">>
          [] s = "NAS100" -> <<"NAS", "100">>
          [] OTHER -> <<"XAU", "USD">>]

\* utils.get_instrument_currency_pairs; every symbol of the model has at
\* least 6 characters.
get_instrument_currency_pairs(instrument) ==
    IF SymbolParts[instrument][1] = "XAU" THEN <<"XAU", "USD">>
    ELSE IF SymbolParts[instrument][1] = "XAG" THEN <<"XAG", "USD">>
    ELSE SymbolParts[instrument]

\* The violations of one trade against events k.. of the list: the open
\* check, then the close check, for every event of a relevant currency.
RECURSIVE news_trade_violations(_, _, _)
news_trade_violations(trade, news_events, k) ==
    IF k > Len(news_events) THEN <<>>
    ELSE LET event == news_events[k]
             pair == get_instrument_currency_pairs(trade.instrument)
             relevant_currencies == {pair[1], pair[2]}
             time_diff_open == Abs(trade.open_time - event.time)
             time_diff_close == Abs(trade.close_time - event.time)
             rest == news_trade_violations(trade, news_events, k + 1)
             Found(type, at, diff) ==
                 [Position_ID |-> trade.position_id, Instrument |-> trade.instrument,
                  Event_Type |-> type, Trade_Time |-> at,
                  News_Currency |-> event.currency, News_Time |-> event.time,
                  Time_Difference_Seconds |-> diff]
         IN  IF event.currency \notin relevant_currencies THEN rest
             ELSE (IF time_diff_open <= NEWS_BUFFER_SECONDS * MsPerSecond
                   THEN <<Found("OPEN", trade.open_time, time_diff_open)>> ELSE <<>>)
                  \o (IF time_diff_close <= NEWS_BUFFER_SECONDS * MsPerSecond
                      THEN <<Found("CLOSE", trade.close_time, time_diff_close)>> ELSE <<>>)
                  \o rest

RECURSIVE news_violations(_, _, _)
news_violations(d, news_events, k) ==
    IF k > Len(d) THEN <<>>
    ELSE news_trade_violations(d[k], news_events, 1) \o news_violations(d, news_events, k + 1)

\* Mutant: an empty event list is evaluated like any other.
no_news_events_ignored(news_events) == FALSE

\* `not news_events`
no_news_events(news_events) == Len(news_events) = 0

check_news_trading(d, addon) ==
    IF addon
    THEN [rule_number |-> 18, status |-> STATUS_NOT_TESTABLE, violations |-> <<>>,
          total_trades |-> Len(d), addon_enabled |-> TRUE]
    ELSE LET min_date == IF d = <<>> THEN NaT ELSE date(SeqMin(Column(d, "open_time")))
             max_date == IF d = <<>> THEN NaT ELSE date(SeqMax(Column(d, "close_time")))
             news_events == fetch_forex_factory_news(min_date, max_date)
             found == news_violations(d, news_events, 1)
         IN  IF no_news_events(news_events)
             THEN [rule_number |-> 18, status |-> STATUS_NOT_TESTABLE, violations |-> <<>>,
                   total_trades |-> Len(d), addon_enabled |-> FALSE]
             ELSE [rule_number |-> 18,
                   status |-> IF found # <<>> THEN STATUS_VIOLATED ELSE STATUS_PASSED,
                   violations |-> found,
                   total_trades |-> Len(d), news_events_found |-> Len(news_events),
                   violations_found |-> Len(found), addon_enabled |-> FALSE]

-----------------------------------------------------------------------------
(* Rule 23: minimum trading days                                           *)

\* Mutant: every distinct open time counts as a day.
get_distinct_trading_days_by_time(d) ==
    Cardinality({d[k].open_time : k \in 1..Len(d)})

\* utils.get_distinct_trading_days: df['Open Time'].dt.date.nunique()
get_distinct_trading_days(d) ==
    Cardinality({date(d[k].open_time) : k \in 1..Len(d)})

check_minimum_trading_days(d, type) ==
    LET min_required_days == ACCOUNT_TYPES[type].min_trading_days
        distinct_days == get_distinct_trading_days(d)
        Result(status) ==
            [rule_number |-> 23, status |-> status, violations |-> <<>>,
             total_trades |-> Len(d), distinct_trading_days |-> distinct_days,
             min_required_days |-> min_required_days, account_type |-> type]
    IN  IF min_required_days = 0 THEN Result(STATUS_PASSED)
        ELSE IF distinct_days < min_required_days THEN Result(STATUS_VIOLATED)
        ELSE Result(STATUS_PASSED)

-----------------------------------------------------------------------------
(* Rule 3: strategy consistency                                            *)

STRATEGY_CONSISTENCY_MIN_TRADES == 20

\* config.STRATEGY_CONSISTENCY_THRESHOLD, the literal 3.0.
STRATEGY_CONSISTENCY_THRESHOLD == <<3, 1>>

f_is_zero(x) == x.s # 0 /\ x.m = <<>>

\* The k-th smallest of the floats of a list.
f_kth(values, k) ==
    CHOOSE x \in {values[j] : j \in 1..Len(values)} :
        /\ Cardinality({j \in 1..Len(values) : FCmp(values[j], x) < 0}) < k
        /\ k <= Cardinality({j \in 1..Len(values) : FCmp(values[j], x) <= 0})

\* The median of a list of floats: the middle one, or the mean of the two
\* middle ones; NaN for an empty list.
median(values) ==
    Value(values, LAMBDA v :
        IF v = <<>> THEN FNaN
        ELSE IF Len(v) % 2 = 1 THEN f_kth(v, (Len(v) + 1) \div 2)
        ELSE FDivInt(FAdd(f_kth(v, Len(v) \div 2), f_kth(v, Len(v) \div 2 + 1)), 2))

\* The Duration_Seconds column as floats.
Duration_Seconds(d) == [k \in 1..Len(d) |-> FDivInt(FromInt(d[k].duration_ms), MsPerSecond)]

\* The risk percentages of the rows that have a stop loss and a defined risk.
phase_risks(d, equity) ==
    Value([k \in 1..Len(d) |->
               IF notna(d[k].stop_loss)
               THEN calculate_trade_risk(d[k].open_price, d[k].stop_loss, d[k].lots,
                                         d[k].instrument, equity).risk_percent
               ELSE FNaN],
          LAMBDA risk : SelectSeq(risk, f_notna))

calculate_phase_metrics(d, equity) ==
    LET distinct_days == get_distinct_trading_days(d)
        risks == phase_risks(d, equity)
    IN  [median_duration_seconds |-> median(Duration_Seconds(d)),
         trades_per_day |-> IF distinct_days > 0
                            THEN FDivInt(FromInt(Len(d)), distinct_days) ELSE FZero,
         median_risk_percent |-> median(risks),
         distinct_trading_days |-> distinct_days,
         trades_with_sl |-> Len(risks)]

\* max(val1, val2) / min(val1, val2), NaN when a value is 0 or missing.
calculate_ratio(val1, val2) ==
    IF f_is_zero(val1) \/ f_is_zero(val2) \/ ~f_notna(val1) \/ ~f_notna(val2) THEN FNaN
    ELSE IF FGt(val2, val1) THEN FDiv(val2, val1) ELSE FDiv(val1, val2)

compare_metrics(phase1, phase2) ==
    LET threshold == float(STRATEGY_CONSISTENCY_THRESHOLD)
        Exceeds(ratio) == IF f_notna(ratio) THEN FGe(ratio, threshold) ELSE FALSE
    IN  Value(<<calculate_ratio(phase1.median_duration_seconds, phase2.median_duration_seconds),
                calculate_ratio(phase1.trades_per_day, phase2.trades_per_day),
                calculate_ratio(phase1.median_risk_percent, phase2.median_risk_percent)>>,
              LAMBDA r :
            [duration_ratio |-> r[1], duration_exceeds |-> Exceeds(r[1]),
             trades_per_day_ratio |-> r[2], trades_per_day_exceeds |-> Exceeds(r[2]),
             risk_ratio |-> r[3], risk_exceeds |-> Exceeds(r[3])])

enough_metrics(metrics_exceeded) == metrics_exceeded >= 2

check_strategy_consistency(df_phase1, df_phase2, equity_phase1, equity_phase2) ==
    IF Len(df_phase1) < STRATEGY_CONSISTENCY_MIN_TRADES
       \/ Len(df_phase2) < STRATEGY_CONSISTENCY_MIN_TRADES
    THEN [rule_number |-> 3, status |-> STATUS_NOT_TESTABLE, violations |-> <<>>,
          phase1_trades |-> Len(df_phase1), phase2_trades |-> Len(df_phase2)]
    ELSE Value(compare_metrics(calculate_phase_metrics(df_phase1, equity_phase1),
                               calculate_phase_metrics(df_phase2, equity_phase2)),
               LAMBDA differences :
             LET metrics_exceeded ==
                     (IF differences.duration_exceeds THEN 1 ELSE 0)
                     + (IF differences.trades_per_day_exceeds THEN 1 ELSE 0)
                     + (IF differences.risk_exceeds THEN 1 ELSE 0)
             IN  [rule_number |-> 3,
                  status |-> IF enough_metrics(metrics_exceeded)
                             THEN STATUS_VIOLATED ELSE STATUS_PASSED,
                  violations |-> <<>>,
                  phase1_trades |-> Len(df_phase1), phase2_trades |-> Len(df_phase2),
                  differences |-> differences,
                  metrics_exceeded_threshold |-> metrics_exceeded])

\* The phases dictionary: membership, lookup and the list of its keys.
phase_in(name, ph) == \E k \in 1..Len(ph) : ph[k].name = name
phase_of(name, ph) == ph[CHOOSE k \in 1..Len(ph) : ph[k].name = name].df

rule_3_phases_first_two(ph) == <<ph[1].df, ph[2].df>>

rule_3_phases(ph) ==
    IF phase_in("Phase 1", ph) /\ phase_in("Phase 2", ph)
    THEN <<phase_of("Phase 1", ph), phase_of("Phase 2", ph)>>
    ELSE IF phase_in("Phase 1", ph) /\ phase_in("Funded Phase", ph)
    THEN <<phase_of("Phase 1", ph), phase_of("Funded Phase", ph)>>
    ELSE IF phase_in("Phase 2", ph) /\ phase_in("Funded Phase", ph)
    THEN <<phase_of("Phase 2", ph), phase_of("Funded Phase", ph)>>
    ELSE <<ph[1].df, ph[2].df>>

-----------------------------------------------------------------------------
(* Rule 4: prohibited third-party strategies (EAs)                         *)

EA_DETECTION_MIN_TRADES == 10
EA_DETECTION_MIN_DAYS == 3

\* config.TOLERANCES['price'] and ['lots'], the literals 0.00001 and 0.0001.
TOLERANCE_PRICE == <<1, 100000>>
TOLERANCE_LOTS == <<1, 10000>>

calculate_sl_distance(entry_price, stop_loss, side) ==
    IF ~notna(stop_loss) THEN FNaN ELSE FAbs(FSub(float(entry_price), float(stop_loss)))

calculate_tp_distance(entry_price, take_profit, side) ==
    IF ~notna(take_profit) THEN FNaN ELSE FAbs(FSub(float(entry_price), float(take_profit)))

has_sl_tp(t) == notna(t.stop_loss) /\ notna(t.take_profit)

\* The trades with both values, with the columns SL_Distance and TP_Distance;
\* Lots and Duration_Seconds are the binary64 columns of the frame.
with_sl_tp(d) ==
    Value(SelectSeq(d, has_sl_tp), LAMBDA kept :
        Value([k \in 1..Len(kept) |->
                  [idx |-> kept[k].idx, open_time |-> kept[k].open_time,
                   Lots |-> float(kept[k].lots),
                   Duration_Seconds |-> FDivInt(FromInt(kept[k].duration_ms), MsPerSecond),
                   SL_Distance |-> calculate_sl_distance(kept[k].open_price,
                                                         kept[k].stop_loss, kept[k].side),
                   TP_Distance |-> calculate_tp_distance(kept[k].open_price,
                                                         kept[k].take_profit, kept[k].side)]],
              LAMBDA frame : frame))

is_pattern_match(trade1, trade2) ==
    IF FGt(FAbs(FSub(trade1.SL_Distance, trade2.SL_Distance)), float(TOLERANCE_PRICE))
    THEN FALSE
    ELSE IF FGt(FAbs(FSub(trade1.TP_Distance, trade2.TP_Distance)), float(TOLERANCE_PRICE))
    THEN FALSE
    ELSE IF FGt(FAbs(FSub(trade1.Duration_Seconds, trade2.Duration_Seconds)),
                FromInt(TOLERANCE_TIME))
    THEN FALSE
    ELSE IF FGt(FAbs(FSub(trade1.Lots, trade2.Lots)), float(TOLERANCE_LOTS))
    THEN FALSE
    ELSE TRUE

\* Mutant: a trade matched by the seed of a group that is not recorded stays
\* free for later seeds.
mark_used_recorded_only(used, others, recorded) == IF recorded THEN used \cup others ELSE used

\* Mutant: used_indices.add(other_idx) is left out.
mark_used_none(used, others, recorded) == used

\* The index labels used after the inner loop of a seed: every trade that
\* matched is marked as it is appended, whether or not the group is recorded.
mark_used(used, others, recorded) == used \cup others

\* One iteration of the outer loop of find_pattern_groups, for the trade at
\* position k of the frame d; st is [pattern_groups, used_indices].
find_pattern_groups_iteration(d, k, st) ==
    IF d[k].idx \in st.used_indices THEN st
    ELSE LET trade == d[k]
             Similar(other) ==
                 /\ other.idx # trade.idx
                 /\ other.idx \notin st.used_indices
                 /\ is_pattern_match(trade, other)
         IN  Value(SelectSeq(d, Similar), LAMBDA matched :
                 LET others == {matched[j].idx : j \in 1..Len(matched)}
                     similar_trades ==
                         <<trade.idx>> \o [j \in 1..Len(matched) |-> matched[j].idx]
                     recorded == Len(matched) + 1 >= EA_DETECTION_MIN_TRADES
                 IN  [pattern_groups |-> IF recorded
                                         THEN Append(st.pattern_groups, similar_trades)
                                         ELSE st.pattern_groups,
                      used_indices |-> IF recorded
                                       THEN mark_used(st.used_indices, others, recorded)
                                            \cup {trade.idx}
                                       ELSE mark_used(st.used_indices, others, recorded)])

\* The row of frame d with index label i.
loc(d, i) == d[CHOOSE k \in 1..Len(d) : d[k].idx = i]

\* The violations of the recorded groups, in their order: the groups of at
\* least 10 trades that open on at least 3 distinct dates.
RECURSIVE ea_violations(_, _, _)
ea_violations(d, groups, g) ==
    IF g > Len(groups) THEN <<>>
    ELSE LET group == groups[g]
             trade_dates == {date(loc(d, group[j]).open_time) : j \in 1..Len(group)}
         IN  (IF Len(group) >= EA_DETECTION_MIN_TRADES
                  /\ Cardinality(trade_dates) >= EA_DETECTION_MIN_DAYS
              THEN <<[trade_indices |-> group, pattern_size |-> Len(group),
                      distinct_days |-> Cardinality(trade_dates), dates |-> trade_dates]>>
              ELSE <<>>) \o ea_violations(d, groups, g + 1)

\* What check_ea_violation returns once the groups are found.
ea_result(d, kept, groups) ==
    LET found == ea_violations(kept, groups, 1)
    IN  [rule_number |-> 4,
         status |-> IF found # <<>> THEN STATUS_VIOLATED ELSE STATUS_PASSED,
         total_trades |-> Len(d), trades_analyzed |-> Len(kept),
         pattern_groups_found |-> Len(found), violations |-> found]

-----------------------------------------------------------------------------
(* dashboard_utils.py: the overall verdict                                 *)

\* r.get('status'): None for a result without a status.
get_status(r) == IF "status" \in DOMAIN r THEN r.status ELSE "None"

\* Mutant: a result that is NOT_TESTABLE keeps the verdict from PASSED.
overall_status_all_testable(passed, violated, not_testable) ==
    IF violated > 0 THEN "FAILED"
    ELSE IF passed > 0 /\ not_testable = 0 THEN "PASSED"
    ELSE "INCOMPLETE"

overall_status(passed, violated, not_testable) ==
    IF violated > 0 THEN "FAILED"
    ELSE IF passed > 0 /\ violated = 0 THEN "PASSED"
    ELSE "INCOMPLETE"

calculate_overall_status(rs) ==
    LET Count(status) == Cardinality({k \in 1..Len(rs) : get_status(rs[k]) = status})
        passed == Count(STATUS_PASSED)
        violated == Count(STATUS_VIOLATED)
        not_testable == Count(STATUS_NOT_TESTABLE)
    IN  [overall |-> overall_status(passed, violated, not_testable),
         counts |-> [passed |-> passed, violated |-> violated,
                     not_testable |-> not_testable, total |-> Len(rs)]]

-----------------------------------------------------------------------------
(* rule_executor.py: all active rules                                      *)

\* dashboard_utils.determine_active_rules.
all_rules == <<1, 3, 4, 12, 13, 14, 15, 16, 17, 18, 19, 23>>
determine_active_rules(type, addon) ==
    LET Active(rule_num) ==
            /\ ~(addon /\ rule_num \in {18, 19})
            /\ ~(rule_num = 17 /\ type # "Direct Funding")
    IN  SelectSeq(all_rules, Active)

\* The frame of the single-phase rules: the table of the only phase, or the
\* tables of all phases one after the other with a new index.
RECURSIVE concat(_, _)
concat(ph, k) == IF k > Len(ph) THEN <<>> ELSE ph[k].df \o concat(ph, k + 1)
main_df_of(ph) ==
    IF Len(ph) = 1 THEN ph[1].df
    ELSE Value(concat(ph, 1), LAMBDA all :
             [k \in 1..Len(all) |-> [all[k] EXCEPT !.idx = k - 1]])

\* Rule 4 and Rule 16 as the executor calls them, all iterations at once.
RECURSIVE find_pattern_groups_from(_, _, _)
find_pattern_groups_from(d, k, st) ==
    IF k > Len(d) THEN st
    ELSE Value(find_pattern_groups_iteration(d, k, st),
               LAMBDA next : find_pattern_groups_from(d, k + 1, next))
execute_rule_4(d) ==
    Value(with_sl_tp(d), LAMBDA kept :
        IF Len(kept) < EA_DETECTION_MIN_TRADES
        THEN [rule_number |-> 4, status |-> STATUS_NOT_TESTABLE,
              total_trades |-> Len(d), trades_with_sl_tp |-> Len(kept),
              violations |-> <<>>]
        ELSE ea_result(d, kept,
                       find_pattern_groups_from(
                           kept, 1, [pattern_groups |-> <<>>,
                                     used_indices |-> {}]).pattern_groups))

RECURSIVE abuse_windows_from(_, _, _, _)
abuse_windows_from(df_sorted, k, equity, recorded) ==
    IF k > Len(df_sorted) THEN recorded
    ELSE Value(abuse_window(df_sorted, k, equity, recorded).violations,
               LAMBDA next : abuse_windows_from(df_sorted, k + 1, equity, next))
check_abuse_of_sim_environment(d, equity) ==
    Value(abuse_windows_from(sort_values(d), 1, equity, <<>>), LAMBDA found :
        [status |-> IF found # <<>> THEN STATUS_VIOLATED ELSE STATUS_PASSED,
         violations |-> found, total_trades |-> Len(d)])

\* The result of one rule, as the branches of the loop of execute_all_rules
\* and the execute_rule_N functions compute it; every result carries its
\* rule number.
rule_result(rule_num, ph, main_df, type, size, news_addon, weekend_addon) ==
    [rule_number |-> rule_num] @@
    CASE rule_num = 1 -> check_hedging_violation(main_df)
      [] rule_num = 3 ->
            IF Len(ph) < 2
            THEN [rule_number |-> 3, status |-> STATUS_NOT_TESTABLE, violations |-> <<>>,
                  phase1_trades |-> IF ph # <<>> THEN Len(ph[1].df) ELSE 0,
                  phase2_trades |-> 0]
            ELSE check_strategy_consistency(rule_3_phases(ph)[1], rule_3_phases(ph)[2],
                                            size, size)
      [] rule_num = 4 -> execute_rule_4(main_df)
      [] rule_num = 12 -> check_all_or_nothing(main_df, size, type)
      [] rule_num = 13 -> check_margin_usage(main_df, size, type)
      [] rule_num = 14 -> check_gambling(main_df)
      [] rule_num = 15 -> check_one_sided_bets(main_df)
      [] rule_num = 16 -> check_abuse_of_sim_environment(main_df, size)
      [] rule_num = 17 ->
            IF type # "Direct Funding"
            THEN [status |-> STATUS_NOT_TESTABLE, violations |-> <<>>]
            ELSE check_max_risk_per_idea(main_df, size, type)
      [] rule_num = 18 ->
            IF news_addon
            THEN [rule_number |-> 18, status |-> STATUS_PASSED, violations |-> <<>>,
                  message |-> "Skipped - Add-on enabled"]
            ELSE check_news_trading(main_df, news_addon)
      [] rule_num = 19 ->
            IF weekend_addon
            THEN [rule_number |-> 19, status |-> STATUS_PASSED, violations |-> <<>>,
                  message |-> "Skipped - Add-on enabled"]
            ELSE check_weekend_trading(main_df, weekend_addon)
      [] rule_num = 23 -> check_minimum_trading_days(main_df, type)
      [] OTHER -> [rule_number |-> rule_num, status |-> STATUS_NOT_TESTABLE,
                   message |-> "Rule not implemented"]

\* The except branch of the loop: the result appended for a rule whose
\* evaluator raised.
append_error(rs, rule_num) ==
    Append(rs, [rule_number |-> rule_num, status |-> STATUS_NOT_TESTABLE,
                message |-> "Error", error_details |-> "traceback"])

-----------------------------------------------------------------------------
(* The quality gate of the normalizer                                      *)

\* The minimum percentage of valid rows, the literal 95 of validate_csv_file
\* and the default min_valid_percent of validate_csv_quality.
MIN_VALID_PERCENT == 95

\* validate_csv_file: the row errors of a row, for the fields the rows of the
\* model carry: a numerical field that is missing or not positive, a side
\* that is neither BUY nor SELL, a missing instrument.
row_errors(row) ==
    (IF ~notna(row.lots) \/ ~RGt(row.lots, Num(0)) THEN {"Invalid Lots"} ELSE {})
    \cup (IF ~notna(row.open_price) \/ ~RGt(row.open_price, Num(0))
          THEN {"Invalid Open Price"} ELSE {})
    \cup (IF row.side \notin {"BUY", "SELL"} THEN {"Invalid Side"} ELSE {})
    \cup (IF row.instrument = "" THEN {"Missing Instrument"} ELSE {})

\* (valid / total) * 100 < 95 in binary64, 0 for a file without rows.
below_minimum(valid, total) ==
    LET valid_percent == IF total > 0
                         THEN FMul(FDivInt(FromInt(valid), total), FromInt(100))
                         ELSE FZero
    IN  FCmp(valid_percent, FromInt(MIN_VALID_PERCENT)) < 0

\* dashboard_utils.validate_csv_file: (is_valid, cleaned_df, errors); of the
\* errors, the number of removed rows that the first message reports.
validate_csv_file(d) ==
    LET Valid(row) == row_errors(row) = {}
        valid_rows == SelectSeq(d, Valid)
        total_rows == Len(d)
    IN  IF below_minimum(Len(valid_rows), total_rows)
        THEN [is_valid |-> FALSE, df |-> d, removed |-> "None"]
        ELSE IF Len(valid_rows) < total_rows
        THEN [is_valid |-> TRUE, df |-> valid_rows,
              removed |-> total_rows - Len(valid_rows)]
        ELSE [is_valid |-> TRUE, df |-> d, removed |-> "None"]

\* utils.validate_csv_quality: (is_valid, errors); the caller goes on with
\* the frame it passed.  A row is invalid when a required column is null.
validate_csv_quality(d) ==
    LET Null(row) == ~notna(row.lots) \/ ~notna(row.open_price)
        total_rows == Len(d)
        invalid_rows == Len(SelectSeq(d, Null))
    IN  IF total_rows = 0 THEN [is_valid |-> FALSE, df |-> d, removed |-> "None"]
        ELSE IF below_minimum(total_rows - invalid_rows, total_rows)
        THEN [is_valid |-> FALSE, df |-> d, removed |-> "None"]
        ELSE [is_valid |-> TRUE, df |-> d, removed |-> "None"]

-----------------------------------------------------------------------------
(* What an evaluator leaves behind                                         *)

\* Mutant: Rule 13 and Rule 16 sort the frame they are given in place.
frame_after_sorted_in_place(rule_num, d) ==
    IF rule_num \in {13, 16} THEN sort_values(d) ELSE d

\* The frame an evaluator was given, after its run.  No evaluator assigns to
\* its argument: the rows it selects, sorts or adds columns to are new frames
\* (df[mask].copy() in Rules 1, 4, 12, 15 and 17, df.sort_values(...).copy()
\* in Rules 13, 16 and 17, the SL_Distance and TP_Distance columns of Rule 4
\* go to the copy), and the other evaluators only read it.
frame_after(rule_num, d) == d

-----------------------------------------------------------------------------
(* The normalizer: timestamps, swap and duration                           *)

\* A cell of a time column of a file: an instant, an empty cell (read as
\* NaN, converted to NaT) or text that is no time.
TimeCell(ms) == [empty |-> FALSE, text |-> FALSE, ms |-> ms]
EmptyCell == [empty |-> TRUE, text |-> FALSE, ms |-> 0]
TextCell == [empty |-> FALSE, text |-> TRUE, ms |-> 0]

\* A row of a file; Duration_Seconds is the value of that column where the
\* file has one.
FileRow(pid, o, c, l, sl, duration) ==
    [position_id |-> pid, instrument |-> "EURUSD", side |-> "BUY",
     open_time |-> o, close_time |-> c, lots |-> l, open_price |-> Num(1),
     stop_loss |-> sl, take_profit |-> NaN, Duration_Seconds |-> duration]

\* Mutant: any two different times are exchanged.
open_not_close(open_time, close_time) ==
    ~open_time.empty /\ ~close_time.empty /\ open_time.ms # close_time.ms

\* open_time > close_time on two timestamps; a comparison with NaT is False.
open_after_close(open_time, close_time) ==
    ~open_time.empty /\ ~close_time.empty /\ open_time.ms > close_time.ms

\* (close - open).total_seconds(), NaN where a time is NaT.
total_seconds(open_time, close_time) ==
    IF open_time.empty \/ close_time.empty THEN NaN
    ELSE Rat(close_time.ms - open_time.ms, MsPerSecond)

\* The time errors of a row of validate_csv_file: pd.to_datetime raises on
\* text that is no time and returns NaT for an empty cell.
time_errors(row) ==
    (IF row.open_time.text THEN {"Invalid Open Time format"} ELSE {})
    \cup (IF row.close_time.text THEN {"Invalid Close Time format"} ELSE {})

\* The row after the time check of validate_csv_file: the times are swapped
\* in the frame when both were read and Open is after Close.
swap_times(row) ==
    IF time_errors(row) = {} /\ open_after_close(row.open_time, row.close_time)
    THEN [row EXCEPT !.open_time = row.close_time, !.close_time = row.open_time]
    ELSE row

\* Mutant: the duration is computed whether or not the frame has the column.
convert_timestamps_to_utc_recomputed(frame) ==
    [Duration_Seconds_column |-> TRUE,
     rows |-> [k \in 1..Len(frame.rows) |->
                  [frame.rows[k] EXCEPT !.Duration_Seconds =
                      total_seconds(frame.rows[k].open_time, frame.rows[k].close_time)]]]

\* dashboard_utils.convert_timestamps_to_utc: Duration_Seconds is computed
\* only for a frame that has no such column.
convert_timestamps_to_utc(frame) ==
    IF ~frame.Duration_Seconds_column
    THEN [Duration_Seconds_column |-> TRUE,
          rows |-> [k \in 1..Len(frame.rows) |->
                       [frame.rows[k] EXCEPT !.Duration_Seconds =
                           total_seconds(frame.rows[k].open_time,
                                         frame.rows[k].close_time)]]]
    ELSE frame

\* dashboard_utils.validate_csv_file on a frame: (is_valid, df_clean), the
\* number of rows removed and the number of rows whose times were swapped.
validate_and_clean(frame) ==
    LET Valid(row) == time_errors(row) = {} /\ row_errors(row) = {}
        Swapped(row) == swap_times(row) # row
        checked == [k \in 1..Len(frame.rows) |-> swap_times(frame.rows[k])]
        valid_rows == SelectSeq(checked, Valid)
        total_rows == Len(frame.rows)
    IN  IF below_minimum(Len(valid_rows), total_rows)
        THEN [is_valid |-> FALSE,
              df |-> [frame EXCEPT !.rows = checked],
              removed |-> 0, swapped |-> Len(SelectSeq(frame.rows, Swapped))]
        ELSE [is_valid |-> TRUE,
              df |-> convert_timestamps_to_utc([frame EXCEPT !.rows = valid_rows]),
              removed |-> total_rows - Len(valid_rows),
              swapped |-> Len(SelectSeq(frame.rows, Swapped))]

\* utils.load_csv on a frame: text that is no time makes the parse raise and
\* nothing is loaded; otherwise the rows with Open after Close are swapped
\* and Duration_Seconds is always computed.
load_csv(frame) ==
    LET Swapped(row) == open_after_close(row.open_time, row.close_time)
        Loaded(row) ==
            LET o == IF Swapped(row) THEN row.close_time ELSE row.open_time
                c == IF Swapped(row) THEN row.open_time ELSE row.close_time
            IN  [row EXCEPT !.open_time = o, !.close_time = c,
                            !.Duration_Seconds = total_seconds(o, c)]
    IN  IF \E k \in 1..Len(frame.rows) : time_errors(frame.rows[k]) # {}
        THEN [is_valid |-> FALSE, df |-> frame, removed |-> 0, swapped |-> 0]
        ELSE [is_valid |-> TRUE,
              df |-> [Duration_Seconds_column |-> TRUE,
                      rows |-> [k \in 1..Len(frame.rows) |-> Loaded(frame.rows[k])]],
              removed |-> 0,
              swapped |-> Len(SelectSeq(frame.rows, Swapped))]

-----------------------------------------------------------------------------
(* What a rule script prints and how the app reads it                      *)

\* A text is a sequence of characters; a character outside ASCII is written
\* by its code point.
NL == "\n"
ESC == "ESC"
Space == {" ", "\n", "\t", "\r"}
UpperCase == <<"A", "B", "C", "D", "E", "F", "G", "H", "I", "J", "K", "L", "M", "N", "O", "P", "Q", "R", "S", "T", "U", "V", "W", "X", "Y", "Z">>
LowerCase == <<"a", "b", "c", "d", "e", "f", "g", "h", "i", "j", "k", "l", "m", "n", "o", "p", "q", "r", "s", "t", "u", "v", "w", "x", "y", "z">>
DecimalDigits == <<"0", "1", "2", "3", "4", "5", "6", "7", "8", "9">>

\* str.lower(), character by character.
lower(text) ==
    [k \in 1..Len(text) |->
        IF \E n \in 1..Len(UpperCase) : UpperCase[n] = text[k]
        THEN LowerCase[CHOOSE n \in 1..Len(UpperCase) : UpperCase[n] = text[k]]
        ELSE text[k]]

\* str.strip().
strip(text) ==
    LET kept == {k \in 1..Len(text) : text[k] \notin Space}
    IN  IF kept = {} THEN <<>>
        ELSE SubSeq(text, CHOOSE k \in kept : \A n \in kept : k <= n,
                          CHOOSE k \in kept : \A n \in kept : k >= n)

\* needle in text.
Contains(text, needle) ==
    \E k \in 1..(Len(text) - Len(needle) + 1) :
        \A n \in 1..Len(needle) : text[k + n - 1] = needle[n]

\* "c" * n.
Repeat(c, n) == [k \in 1..n |-> c]

\* str(n) of a natural number.
RECURSIVE str(_)
str(n) ==
    IF n < 10 THEN <<DecimalDigits[n + 1]>>
    ELSE str(n \div 10) \o <<DecimalDigits[(n % 10) + 1]>>

\* f"{x:.2f}" of x = hundredths / 100.
format_2f(hundredths) ==
    str(hundredths \div 100) \o <<".">>
        \o <<DecimalDigits[((hundredths \div 10) % 10) + 1]>>
        \o <<DecimalDigits[(hundredths % 10) + 1]>>

\* f"{n:,.2f}" of a whole number below a million.
format_thousands_2f(n) ==
    (IF n >= 1000
     THEN str(n \div 1000) \o <<",">>
            \o <<DecimalDigits[((n \div 100) % 10) + 1]>>
            \o <<DecimalDigits[((n \div 10) % 10) + 1]>>
            \o <<DecimalDigits[(n % 10) + 1]>>
     ELSE str(n)) \o <<".", "0", "0">>

\* The texts of config.STATUS_*, which a rule script prints.
\* "(U+2705) PASSED"
TextPassed == <<"U+2705", " ", "P", "A", "S", "S", "E", "D">>
\* "(U+274C) VIOLATED"
TextViolated == <<"U+274C", " ", "V", "I", "O", "L", "A", "T", "E", "D">>
\* "(U+26A0)(U+FE0F) NOT TESTABLE"
TextNotTestable == <<"U+26A0", "U+FE0F", " ", "N", "O", "T", " ", "T", "E", "S", "T", "A", "B", "L", "E">>
status_text(status) ==
    CASE status = STATUS_PASSED -> TextPassed
      [] status = STATUS_VIOLATED -> TextViolated
      [] status = STATUS_NOT_TESTABLE -> TextNotTestable

\* "RULE "
TextRule == <<"R", "U", "L", "E", " ">>
\* ": "
TextColon == <<":", " ">>
\* "Status: "
TextStatus == <<"S", "t", "a", "t", "u", "s", ":", " ">>
\* "Result: "
TextResult == <<"R", "e", "s", "u", "l", "t", ":", " ">>
\* "Details:"
TextDetails == <<"D", "e", "t", "a", "i", "l", "s", ":">>
\* "  - "
TextDetailItem == <<" ", " ", "-", " ">>
\* "Loading data from: "
TextLoading == <<"L", "o", "a", "d", "i", "n", "g", " ", "d", "a", "t", "a", " ", "f", "r", "o", "m", ":", " ">>
\* "Successfully loaded "
TextLoaded == <<"S", "u", "c", "c", "e", "s", "s", "f", "u", "l", "l", "y", " ", "l", "o", "a", "d", "e", "d", " ">>
\* " trades"
TextTrades == <<" ", "t", "r", "a", "d", "e", "s">>
\* "Warning: "
TextWarning == <<"W", "a", "r", "n", "i", "n", "g", ":", " ">>
\* " rows had Open Time > Close Time. Swapping..."
TextSwapping == <<" ", "r", "o", "w", "s", " ", "h", "a", "d", " ", "O", "p", "e", "n", " ", "T", "i", "m", "e", " ", ">", " ", "C", "l", "o", "s", "e", " ", "T", "i", "m", "e", ".", " ", "S", "w", "a", "p", "p", "i", "n", "g", ".", ".", ".">>
\* "Summary exported to: Rule_"
TextSummaryExported == <<"S", "u", "m", "m", "a", "r", "y", " ", "e", "x", "p", "o", "r", "t", "e", "d", " ", "t", "o", ":", " ", "R", "u", "l", "e", "_">>
\* "_summary.csv"
TextSummaryCsv == <<"_", "s", "u", "m", "m", "a", "r", "y", ".", "c", "s", "v">>
\* "Violations exported to: Rule_"
TextViolationsExported == <<"V", "i", "o", "l", "a", "t", "i", "o", "n", "s", " ", "e", "x", "p", "o", "r", "t", "e", "d", " ", "t", "o", ":", " ", "R", "u", "l", "e", "_">>
\* "_violations.csv"
TextViolationsCsv == <<"_", "v", "i", "o", "l", "a", "t", "i", "o", "n", "s", ".", "c", "s", "v">>
\* "Short trades exported to: Rule_"
TextShortExported == <<"S", "h", "o", "r", "t", " ", "t", "r", "a", "d", "e", "s", " ", "e", "x", "p", "o", "r", "t", "e", "d", " ", "t", "o", ":", " ", "R", "u", "l", "e", "_">>
\* "_short_trades.csv"
TextShortCsv == <<"_", "s", "h", "o", "r", "t", "_", "t", "r", "a", "d", "e", "s", ".", "c", "s", "v">>
\* "Total trades analyzed: "
TextTotalAnalyzed == <<"T", "o", "t", "a", "l", " ", "t", "r", "a", "d", "e", "s", " ", "a", "n", "a", "l", "y", "z", "e", "d", ":", " ">>
\* "Total trades: "
TextTotalTrades == <<"T", "o", "t", "a", "l", " ", "t", "r", "a", "d", "e", "s", ":", " ">>
\* "Violations found: "
TextViolationsFound == <<"V", "i", "o", "l", "a", "t", "i", "o", "n", "s", " ", "f", "o", "u", "n", "d", ":", " ">>
\* "VIOLATION DETAILS:"
TextViolationDetails == <<"V", "I", "O", "L", "A", "T", "I", "O", "N", " ", "D", "E", "T", "A", "I", "L", "S", ":">>
\* "(U+1F4CB) VIOLATION REASON:"
TextViolationReason == <<"U+1F4CB", " ", "V", "I", "O", "L", "A", "T", "I", "O", "N", " ", "R", "E", "A", "S", "O", "N", ":">>
\* "Found "
TextFound == <<"F", "o", "u", "n", "d", " ">>
\* "Hedging Ban"
Name1 == <<"H", "e", "d", "g", "i", "n", "g", " ", "B", "a", "n">>
\* " hedging violation(s)"
Violated1 == <<" ", "h", "e", "d", "g", "i", "n", "g", " ", "v", "i", "o", "l", "a", "t", "i", "o", "n", "(", "s", ")">>
\* "No hedging violations detected. No simultaneous long/short positions found."
Passed1 == <<"N", "o", " ", "h", "e", "d", "g", "i", "n", "g", " ", "v", "i", "o", "l", "a", "t", "i", "o", "n", "s", " ", "d", "e", "t", "e", "c", "t", "e", "d", ".", " ", "N", "o", " ", "s", "i", "m", "u", "l", "t", "a", "n", "e", "o", "u", "s", " ", "l", "o", "n", "g", "/", "s", "h", "o", "r", "t", " ", "p", "o", "s", "i", "t", "i", "o", "n", "s", " ", "f", "o", "u", "n", "d", ".">>
\* "Prohibited Third-Party Strategies (EAs)"
Name4 == <<"P", "r", "o", "h", "i", "b", "i", "t", "e", "d", " ", "T", "h", "i", "r", "d", "-", "P", "a", "r", "t", "y", " ", "S", "t", "r", "a", "t", "e", "g", "i", "e", "s", " ", "(", "E", "A", "s", ")">>
\* "Trades with SL & TP: "
TextWithSLTP == <<"T", "r", "a", "d", "e", "s", " ", "w", "i", "t", "h", " ", "S", "L", " ", "&", " ", "T", "P", ":", " ">>
\* "Pattern groups found: "
TextPatternGroups == <<"P", "a", "t", "t", "e", "r", "n", " ", "g", "r", "o", "u", "p", "s", " ", "f", "o", "u", "n", "d", ":", " ">>
\* " suspicious pattern group(s) indicating potential EA usage"
Violated4 == <<" ", "s", "u", "s", "p", "i", "c", "i", "o", "u", "s", " ", "p", "a", "t", "t", "e", "r", "n", " ", "g", "r", "o", "u", "p", "(", "s", ")", " ", "i", "n", "d", "i", "c", "a", "t", "i", "n", "g", " ", "p", "o", "t", "e", "n", "t", "i", "a", "l", " ", "E", "A", " ", "u", "s", "a", "g", "e">>
\* "No automated trading patterns detected. No EA usage indicators found."
Passed4 == <<"N", "o", " ", "a", "u", "t", "o", "m", "a", "t", "e", "d", " ", "t", "r", "a", "d", "i", "n", "g", " ", "p", "a", "t", "t", "e", "r", "n", "s", " ", "d", "e", "t", "e", "c", "t", "e", "d", ".", " ", "N", "o", " ", "E", "A", " ", "u", "s", "a", "g", "e", " ", "i", "n", "d", "i", "c", "a", "t", "o", "r", "s", " ", "f", "o", "u", "n", "d", ".">>
\* "Only "
TextOnly == <<"O", "n", "l", "y", " ">>
\* " trades have both SL and TP (minimum required: "
NotTestable4 == <<" ", "t", "r", "a", "d", "e", "s", " ", "h", "a", "v", "e", " ", "b", "o", "t", "h", " ", "S", "L", " ", "a", "n", "d", " ", "T", "P", " ", "(", "m", "i", "n", "i", "m", "u", "m", " ", "r", "e", "q", "u", "i", "r", "e", "d", ":", " ">>
\* "Total Trades"
KeyTotalTrades == <<"T", "o", "t", "a", "l", " ", "T", "r", "a", "d", "e", "s">>
\* "Trades with SL & TP"
KeyWithSLTP == <<"T", "r", "a", "d", "e", "s", " ", "w", "i", "t", "h", " ", "S", "L", " ", "&", " ", "T", "P">>
\* "Minimum Required"
KeyMinimum == <<"M", "i", "n", "i", "m", "u", "m", " ", "R", "e", "q", "u", "i", "r", "e", "d">>
\* "Gambling Definition"
Name14 == <<"G", "a", "m", "b", "l", "i", "n", "g", " ", "D", "e", "f", "i", "n", "i", "t", "i", "o", "n">>
\* "Trades < "
TextTradesBelow == <<"T", "r", "a", "d", "e", "s", " ", "<", " ">>
\* " seconds: "
TextSeconds == <<" ", "s", "e", "c", "o", "n", "d", "s", ":", " ">>
\* "Percentage: "
TextPercentage == <<"P", "e", "r", "c", "e", "n", "t", "a", "g", "e", ":", " ">>
\* "Threshold: > "
TextThreshold == <<"T", "h", "r", "e", "s", "h", "o", "l", "d", ":", " ", ">", " ">>
\* "Gambling behavior detected. "
Violated14 == <<"G", "a", "m", "b", "l", "i", "n", "g", " ", "b", "e", "h", "a", "v", "i", "o", "r", " ", "d", "e", "t", "e", "c", "t", "e", "d", ".", " ">>
\* "No gambling behavior detected. Only "
Passed14 == <<"N", "o", " ", "g", "a", "m", "b", "l", "i", "n", "g", " ", "b", "e", "h", "a", "v", "i", "o", "r", " ", "d", "e", "t", "e", "c", "t", "e", "d", ".", " ", "O", "n", "l", "y", " ">>
\* "% of trades are held for less than "
TextOfTrades == <<"%", " ", "o", "f", " ", "t", "r", "a", "d", "e", "s", " ", "a", "r", "e", " ", "h", "e", "l", "d", " ", "f", "o", "r", " ", "l", "e", "s", "s", " ", "t", "h", "a", "n", " ">>
\* " seconds."
TextSecondsEnd == <<" ", "s", "e", "c", "o", "n", "d", "s", ".">>
\* "SHORT DURATION TRADES:"
TextShortTrades == <<"S", "H", "O", "R", "T", " ", "D", "U", "R", "A", "T", "I", "O", "N", " ", "T", "R", "A", "D", "E", "S", ":">>
\* "Max 2% Risk per Trade Idea"
Name17 == <<"M", "a", "x", " ", "2", "%", " ", "R", "i", "s", "k", " ", "p", "e", "r", " ", "T", "r", "a", "d", "e", " ", "I", "d", "e", "a">>
\* "Account Equity: $"
TextEquity == <<"A", "c", "c", "o", "u", "n", "t", " ", "E", "q", "u", "i", "t", "y", ":", " ", "$">>
\* "Trades with SL: "
TextWithSL == <<"T", "r", "a", "d", "e", "s", " ", "w", "i", "t", "h", " ", "S", "L", ":", " ">>
\* "Trade ideas found: "
TextIdeas == <<"T", "r", "a", "d", "e", " ", "i", "d", "e", "a", "s", " ", "f", "o", "u", "n", "d", ":", " ">>
\* "Maximum allowed risk per idea: "
TextMaxRisk == <<"M", "a", "x", "i", "m", "u", "m", " ", "a", "l", "l", "o", "w", "e", "d", " ", "r", "i", "s", "k", " ", "p", "e", "r", " ", "i", "d", "e", "a", ":", " ">>
\* " trade idea(s) with risk > 2.05%"
Violated17 == <<" ", "t", "r", "a", "d", "e", " ", "i", "d", "e", "a", "(", "s", ")", " ", "w", "i", "t", "h", " ", "r", "i", "s", "k", " ", ">", " ", "2", ".", "0", "5", "%">>
\* "No violations detected. All trade ideas risk (U+2264) 2% of equity."
Passed17 == <<"N", "o", " ", "v", "i", "o", "l", "a", "t", "i", "o", "n", "s", " ", "d", "e", "t", "e", "c", "t", "e", "d", ".", " ", "A", "l", "l", " ", "t", "r", "a", "d", "e", " ", "i", "d", "e", "a", "s", " ", "r", "i", "s", "k", " ", "U+2264", " ", "2", "%", " ", "o", "f", " ", "e", "q", "u", "i", "t", "y", ".">>
\* "This rule only applies to Direct Funding accounts. Current type: "
NotTestable17Type == <<"T", "h", "i", "s", " ", "r", "u", "l", "e", " ", "o", "n", "l", "y", " ", "a", "p", "p", "l", "i", "e", "s", " ", "t", "o", " ", "D", "i", "r", "e", "c", "t", " ", "F", "u", "n", "d", "i", "n", "g", " ", "a", "c", "c", "o", "u", "n", "t", "s", ".", " ", "C", "u", "r", "r", "e", "n", "t", " ", "t", "y", "p", "e", ":", " ">>
\* "No trades have Stop Loss values. Cannot calculate risk."
NotTestable17SL == <<"N", "o", " ", "t", "r", "a", "d", "e", "s", " ", "h", "a", "v", "e", " ", "S", "t", "o", "p", " ", "L", "o", "s", "s", " ", "v", "a", "l", "u", "e", "s", ".", " ", "C", "a", "n", "n", "o", "t", " ", "c", "a", "l", "c", "u", "l", "a", "t", "e", " ", "r", "i", "s", "k", ".">>

\* The needles of parse_rule_status.
\* "(U+274C)", "violated", "violation"
NeedlesViolated ==
    {<<"U+274C">>,
     <<"v", "i", "o", "l", "a", "t", "e", "d">>,
     <<"v", "i", "o", "l", "a", "t", "i", "o", "n">>}
\* "(U+23ED)", "skipped", "not applicable", "n/a"
NeedlesSkipped ==
    {<<"U+23ED">>,
     <<"s", "k", "i", "p", "p", "e", "d">>,
     <<"n", "o", "t", " ", "a", "p", "p", "l", "i", "c", "a", "b", "l", "e">>,
     <<"n", "/", "a">>}
\* "not testable", "missing data", "insufficient data", "requires two csv", "requires both phase"
NeedlesNotTestable ==
    {<<"n", "o", "t", " ", "t", "e", "s", "t", "a", "b", "l", "e">>,
     <<"m", "i", "s", "s", "i", "n", "g", " ", "d", "a", "t", "a">>,
     <<"i", "n", "s", "u", "f", "f", "i", "c", "i", "e", "n", "t", " ", "d", "a", "t", "a">>,
     <<"r", "e", "q", "u", "i", "r", "e", "s", " ", "t", "w", "o", " ", "c", "s", "v">>,
     <<"r", "e", "q", "u", "i", "r", "e", "s", " ", "b", "o", "t", "h", " ", "p", "h", "a", "s", "e">>}
\* "(U+2705)", "passed", "no violation", "no violations", "ok", "pass"
NeedlesPassed ==
    {<<"U+2705">>,
     <<"p", "a", "s", "s", "e", "d">>,
     <<"n", "o", " ", "v", "i", "o", "l", "a", "t", "i", "o", "n">>,
     <<"n", "o", " ", "v", "i", "o", "l", "a", "t", "i", "o", "n", "s">>,
     <<"o", "k">>,
     <<"p", "a", "s", "s">>}
\* "error", "traceback", "exception", "failed", "failure"
NeedlesError ==
    {<<"e", "r", "r", "o", "r">>,
     <<"t", "r", "a", "c", "e", "b", "a", "c", "k">>,
     <<"e", "x", "c", "e", "p", "t", "i", "o", "n">>,
     <<"f", "a", "i", "l", "e", "d">>,
     <<"f", "a", "i", "l", "u", "r", "e">>}

\* f"{x:.0f}" of a whole number x = <<n, d>>.
format_0f(x) == str(x[1] \div x[2])

\* utils.print_rule_header.
print_rule_header(rule_number, rule_name) ==
    <<NL>> \o Repeat("=", 80) \o <<NL>>
        \o TextRule \o str(rule_number) \o TextColon \o rule_name \o <<NL>>
        \o Repeat("=", 80) \o <<NL, NL>>

\* One "  - key: value" line of the details of print_rule_result.
detail_line(item) == TextDetailItem \o item[1] \o TextColon \o item[2] \o <<NL>>

\* utils.print_rule_result; details is a sequence of <<key, value>>.
print_rule_result(status, message, details) ==
    TextStatus \o status \o <<NL>>
        \o TextResult \o message \o <<NL, NL>>
        \o (IF details = <<>> THEN <<>>
            ELSE TextDetails \o <<NL>>
                    \o (IF Len(details) >= 1 THEN detail_line(details[1]) ELSE <<>>)
                    \o (IF Len(details) >= 2 THEN detail_line(details[2]) ELSE <<>>)
                    \o (IF Len(details) >= 3 THEN detail_line(details[3]) ELSE <<>>))
        \o <<NL>> \o Repeat("-", 80) \o <<NL, NL>>

\* Rule_1.print_results.  The lines of the single violations, printed after
\* "VIOLATION DETAILS:", are left out here and in the other scripts: the
\* status line above them already carries the needles of a violation.
print_results_1(res) ==
    print_rule_header(1, Name1)
        \o TextTotalAnalyzed \o str(res.total_trades) \o <<NL>>
        \o TextViolationsFound \o str(res.violations_found) \o <<NL, NL>>
        \o (IF res.violations_found > 0
            THEN print_rule_result(status_text(STATUS_VIOLATED),
                                   TextFound \o str(res.violations_found) \o Violated1, <<>>)
                    \o TextViolationDetails \o <<NL>> \o Repeat("-", 80) \o <<NL>>
            ELSE print_rule_result(status_text(STATUS_PASSED), Passed1, <<>>))

\* Rule_4.print_results.
print_results_4(res) ==
    print_rule_header(4, Name4)
        \o (IF res.status = STATUS_NOT_TESTABLE
            THEN print_rule_result(status_text(STATUS_NOT_TESTABLE),
                    TextOnly \o str(res.trades_with_sl_tp) \o NotTestable4
                        \o str(EA_DETECTION_MIN_TRADES) \o <<")">>,
                    <<<<KeyTotalTrades, str(res.total_trades)>>,
                      <<KeyWithSLTP, str(res.trades_with_sl_tp)>>,
                      <<KeyMinimum, str(EA_DETECTION_MIN_TRADES)>>>>)
            ELSE TextTotalAnalyzed \o str(res.total_trades) \o <<NL>>
                    \o TextWithSLTP \o str(res.trades_with_sl_tp) \o <<NL>>
                    \o TextPatternGroups \o str(res.pattern_groups_found) \o <<NL, NL>>
                    \o (IF res.pattern_groups_found > 0
                        THEN print_rule_result(status_text(STATUS_VIOLATED),
                                TextFound \o str(res.pattern_groups_found) \o Violated4, <<>>)
                                \o TextViolationDetails \o <<NL>> \o Repeat("-", 80) \o <<NL>>
                        ELSE print_rule_result(status_text(STATUS_PASSED), Passed4, <<>>)))

\* short_trades_percent of Rule_14 in hundredths, as f"{x:.2f}" rounds it.
short_trades_percent(res) ==
    (20000 * res.short_trades_count + res.total_trades) \div (2 * res.total_trades)

\* Rule_14.print_results.
print_results_14(res) ==
    LET percent == format_2f(short_trades_percent(res))
        message == percent \o TextOfTrades \o str(GAMBLING_THRESHOLD_SECONDS) \o TextSecondsEnd
    IN  print_rule_header(14, Name14)
            \o TextTotalTrades \o str(res.total_trades) \o <<NL>>
            \o TextTradesBelow \o str(GAMBLING_THRESHOLD_SECONDS) \o TextSeconds
                \o str(res.short_trades_count) \o <<NL>>
            \o TextPercentage \o percent \o <<"%", NL>>
            \o TextThreshold \o format_0f(GAMBLING_THRESHOLD_PERCENT) \o <<"%", NL, NL>>
            \o (IF res.status = STATUS_VIOLATED
                THEN print_rule_result(status_text(STATUS_VIOLATED), Violated14 \o message, <<>>)
                        \o <<NL>> \o TextViolationReason \o <<NL>>
                        \o TextShortTrades \o <<NL>> \o Repeat("-", 80) \o <<NL>>
                ELSE print_rule_result(status_text(STATUS_PASSED), Passed14 \o message, <<>>))

\* Rule_17.print_results.
print_results_17(res) ==
    print_rule_header(17, Name17)
        \o (IF res.status = STATUS_NOT_TESTABLE
            THEN print_rule_result(status_text(STATUS_NOT_TESTABLE), res.message,
                                   <<<<KeyTotalTrades, str(res.total_trades)>>>>)
            ELSE TextEquity \o format_thousands_2f(res.account_equity) \o <<NL>>
                    \o TextTotalTrades \o str(res.total_trades) \o <<NL>>
                    \o TextWithSL \o str(res.trades_with_sl) \o <<NL>>
                    \o TextIdeas \o str(res.trade_ideas_found) \o <<NL>>
                    \o TextMaxRisk \o format_2f((MAX_RISK_PERCENT_DIRECT[1] * 100) \div MAX_RISK_PERCENT_DIRECT[2]) \o <<"%", NL>>
                    \o TextViolationsFound \o str(res.violations_found) \o <<NL, NL>>
                    \o (IF res.violations_found > 0
                        THEN print_rule_result(status_text(STATUS_VIOLATED),
                                TextFound \o str(res.violations_found) \o Violated17, <<>>)
                                \o TextViolationDetails \o <<NL>> \o Repeat("-", 80) \o <<NL>>
                        ELSE print_rule_result(status_text(STATUS_PASSED), Passed17, <<>>)))

print_results(rule_number, res) ==
    CASE rule_number = 1 -> print_results_1(res)
      [] rule_number = 4 -> print_results_4(res)
      [] rule_number = 14 -> print_results_14(res)
      [] rule_number = 17 -> print_results_17(res)

\* export_results of the four scripts: the summary line, and the line of
\* the second file where the script writes one.
export_results(rule_number, res) ==
    <<NL>> \o TextSummaryExported \o str(rule_number) \o TextSummaryCsv \o <<NL>>
        \o (IF res.status = STATUS_VIOLATED
            THEN (IF rule_number = 14
                  THEN TextShortExported \o str(rule_number) \o TextShortCsv
                  ELSE TextViolationsExported \o str(rule_number) \o TextViolationsCsv)
                    \o <<NL>>
            ELSE <<>>)

\* main of a rule script on a file that loads and passes validate_csv_quality:
\* the standard output of the run.  swapped is the number of rows load_csv
\* swapped.
main(rule_number, csv_file, swapped, res) ==
    TextLoading \o csv_file \o <<NL>>
        \o (IF swapped > 0 THEN TextWarning \o str(swapped) \o TextSwapping \o <<NL>> ELSE <<>>)
        \o TextLoaded \o str(res.total_trades) \o TextTrades \o <<NL, NL>>
        \o print_results(rule_number, res)
        \o export_results(rule_number, res)

\* The characters of an ANSI escape sequence after "ESC[".
AnsiParameters == {"0", "1", "2", "3", "4", "5", "6", "7", "8", "9", ":", ";", "<", "=", ">", "?"}
AnsiIntermediates == {" ", "!", "\"", "#", "$", "%", "&", "'", "(", ")", "*", "+", ",", "-", ".", "/"}
AnsiFinals ==
    {UpperCase[k] : k \in 1..Len(UpperCase)} \cup {LowerCase[k] : k \in 1..Len(LowerCase)}
        \cup {"@", "[", "\\", "]", "^", "_", "U+0060", "{", "|", "}", "~"}

\* re.sub(r"\x1B\[[0-?]*[ -/]*[@-~]", "", text) from position k on.
RECURSIVE strip_ansi_from(_, _)
strip_ansi_from(text, k) ==
    IF k > Len(text) THEN <<>>
    ELSE LET Skip(from, class) ==
                 CHOOSE n \in from..(Len(text) + 1) :
                    /\ \A m \in from..(n - 1) : text[m] \in class
                    /\ n <= Len(text) => text[n] \notin class
             p == Skip(k + 2, AnsiParameters)
             q == Skip(p, AnsiIntermediates)
         IN  IF /\ text[k] = ESC /\ k < Len(text) /\ text[k + 1] = "["
                /\ q <= Len(text) /\ text[q] \in AnsiFinals
             THEN strip_ansi_from(text, q + 1)
             ELSE <<text[k]>> \o strip_ansi_from(text, k + 1)
strip_ansi(text) ==
    IF \A k \in 1..Len(text) : text[k] # ESC THEN text ELSE strip_ansi_from(text, 1)

\* Some line of the text, stripped, starts with "{" and ends with "}".
has_json_line(text) ==
    \E i \in {k \in 1..Len(text) : text[k] = "{"} :
        \E j \in {k \in (i + 1)..Len(text) : text[k] = "}"} :
            /\ \A k \in i..j : text[k] # NL
            /\ \A k \in 1..(i - 1) :
                  (\A m \in k..(i - 1) : text[m] # NL) => text[k] \in Space
            /\ \A k \in (j + 1)..Len(text) :
                  (\A m \in (j + 1)..k : text[m] # NL) => text[k] \in Space

\* app.parse_rule_status: the status.  An output with a JSON line is read
\* by json.loads, which is outside this model; no rule script prints one.
parse_rule_status(output, exit_code) ==
    LET text == strip(output)
        low == lower(strip_ansi(text))
        has(needles) == \E n \in needles : Contains(low, n)
    IN  IF has_json_line(text) THEN "JSON"
        ELSE IF has(NeedlesViolated) THEN STATUS_VIOLATED
        ELSE IF has(NeedlesSkipped) THEN "SKIPPED"
        ELSE IF has(NeedlesNotTestable) THEN STATUS_NOT_TESTABLE
        ELSE IF has(NeedlesPassed) THEN STATUS_PASSED
        ELSE IF exit_code = 0 /\ ~has(NeedlesError) THEN STATUS_PASSED
        ELSE "ERROR"

-----------------------------------------------------------------------------
(* The run: loading the table, then one evaluator                          *)

Sides == {"BUY", "SELL"}

\* Bounds on the number of rows of the table, per evaluator.
MaxTrades1 == 3

\* Rule 1 inputs: two instruments, both sides, and intervals whose pairwise
\* overlaps are 1.000 s, 0.999 s, 0.5 s, 0 s (touching) and the whole interval.
Intervals1 == {<<0, 2000>>, <<1000, 3000>>, <<1001, 3000>>, <<2000, 2500>>}
Rows1 ==
    {RawRow(0, ins, sd, iv[1], iv[2], Num(1), Num(1), NaN, NaN) :
        ins \in {"EURUSD", "XAUUSD"}, sd \in Sides, iv \in Intervals1}

\* Rule 19 inputs: instants around one weekend window (the weekend before
\* the reference Monday) and Mondays after the next one; a trade may span no,
\* one or two weekend windows.
MaxTrades19 == 2
Instants19 ==
    {At(-5, 10, 0, 0, 0),    \* Wednesday 10:00:00
     At(-3, 21, 59, 59, 0),  \* Friday 21:59:59
     At(-3, 22, 0, 0, 0),    \* Friday 22:00:00
     At(-2, 12, 0, 0, 0),    \* Saturday 12:00:00
     At(-1, 21, 59, 59, 0),  \* Sunday 21:59:59
     At(-1, 22, 0, 0, 0),    \* Sunday 22:00:00
     At(0, 10, 0, 0, 0),     \* Monday 10:00:00
     At(7, 10, 0, 0, 0)}     \* Monday 10:00:00, a week later
Rows19 ==
    {RawRow(0, "EURUSD", "BUY", o, c, Num(1), Num(1), NaN, NaN) :
        o \in Instants19, c \in Instants19}

\* Rule 15 inputs: the scenario's three intervals, one more that opens with
\* the third, and one that opens at the instant the first closes.
MaxTrades15 == 4
Intervals15 ==
    {<<At(0, 10, 0, 0, 0), At(0, 11, 0, 0, 0)>>,
     <<At(0, 10, 30, 0, 0), At(0, 11, 30, 0, 0)>>,
     <<At(0, 10, 45, 0, 0), At(0, 12, 0, 0, 0)>>,
     <<At(0, 10, 45, 0, 0), At(0, 11, 15, 0, 0)>>,
     <<At(0, 11, 0, 0, 0), At(0, 11, 5, 0, 0)>>}
Rows15 ==
    {RawRow(0, "EURUSD", sd, iv[1], iv[2], Num(1), Num(1), NaN, NaN) :
        sd \in Sides, iv \in Intervals15}
    \cup {RawRow(0, "GBPUSD", "BUY", At(0, 10, 45, 0, 0), At(0, 12, 0, 0, 0),
                  Num(1), Num(1), NaN, NaN)}

\* Rule 13 inputs: three intervals (the second overlaps the first, the third
\* opens at the instant the first closes) at price 1.0, and lot sizes whose
\* sums put the margin at exactly 80.1% and 80.11% of the equity.
MaxTrades13 == 2
Intervals13 == {<<0, 2 * Hour>>, <<Hour, 3 * Hour>>, <<2 * Hour, 4 * Hour>>}
Lots13 == {Num(1), Rat(701, 100), Rat(7011, 1000), Num(10), Rat(701, 10)}
Rows13 ==
    {RawRow(0, "EURUSD", "BUY", iv[1], iv[2], l, Num(1), NaN, NaN) :
        iv \in Intervals13, l \in Lots13}

\* Rule 14 inputs: trades lasting 0 s, 59 s, 60.999 s, 61 s and an hour, and a
\* row of the file whose times are reversed (61 s after the swap).
MaxTrades14 == 4
Durations14 == {0, 59 * MsPerSecond, 60999, 61 * MsPerSecond, Hour}
Rows14 ==
    {RawRow(0, "EURUSD", "BUY", Hour, Hour + d, Num(1), Num(1), NaN, NaN) :
        d \in Durations14}
    \cup {RawRow(0, "EURUSD", "SELL", Hour + 61 * MsPerSecond, Hour,
                 Num(1), Num(1), NaN, NaN)}

\* Rule 12 inputs, for an equity of 5000: entry and stop loss 50.00 apart
\* (risk 100% at 10 lots, at 5 lots for NAS100), a stop loss of 0 and an
\* absent one, lot sizes at and just under the 100% boundary, a symbol with a
\* broker suffix and one that is not configured.
MaxTrades12 == 2
Prices12 ==
    {<<Num(2000), Num(1950)>>, <<Num(2000), NaN>>, <<Num(2000), Num(0)>>,
     <<Rat(100007, 100), Rat(105007, 100)>>}
Rows12 ==
    {RawRow(0, "XAUUSD", "BUY", 0, Hour, l, p[1], p[2], NaN) :
        l \in {Num(10), Rat(999, 100)}, p \in Prices12}
    \cup {RawRow(0, ins, "SELL", 0, Hour, l, Num(2000), Num(1950), NaN) :
        ins \in {"NAS100", "XAUUSD.pro", "BTCUSD"}, l \in {Num(5), Num(10)}}

\* Rule 17 inputs, for an equity of 5000: gold trades opening 60 s and 61 s
\* after the first, index trades opening 300 s and 301 s after it, each
\* risking 1% or 1.05% of the equity, or with a stop loss of 0 or none.
MaxTrades17 == 2
Opens17 ==
    {<<"XAUUSD", 0>>, <<"XAUUSD", 60 * MsPerSecond>>, <<"XAUUSD", 61 * MsPerSecond>>,
     <<"NAS100", 0>>, <<"NAS100", 300 * MsPerSecond>>, <<"NAS100", 301 * MsPerSecond>>}
Risks17 ==
    {<<Rat(1, 10), Num(1950)>>, <<Rat(105, 1000), Num(1950)>>,
     <<Rat(1, 10), NaN>>, <<Rat(1, 10), Num(0)>>}
Rows17 ==
    {RawRow(0, o[1], "BUY", o[2], o[2] + Hour, r[1],
            IF o[1] = "NAS100" THEN Num(1975) ELSE Num(2000), r[2], NaN) :
        o \in Opens17, r \in Risks17}
    \cup {RawRow(0, "XAUUSD", "SELL", 0, Hour, Rat(1, 10), Num(1900), Num(1950), NaN)}

\* Rule 16 inputs, for an equity of 5000 (volume threshold 50000): at price
\* 1.0 a trade of 0.5 lot is worth the threshold and one of 0.1 lot a fifth
\* of it; 0.05 lot at 1.3 and 0.29 lot at 1.5 are worth 6500 and 43500, the
\* threshold together; trades open together, 40 minutes, exactly one hour
\* and exactly 24 hours later; the stop loss is absent, 0 or set.  A file
\* lists its rows newest first: in the reverse of the order of RowSeq16.
MaxTrades16 == 5
RowSeq16 ==
    <<RawRow(0, "EURUSD", "BUY", 0, Hour, Rat(1, 2), Num(1), NaN, NaN),
      RawRow(0, "EURUSD", "BUY", 0, Hour, Rat(5, 100), Rat(13, 10), NaN, NaN),
      RawRow(0, "EURUSD", "BUY", 0, Hour, Rat(29, 100), Rat(15, 10), Num(0), NaN),
      RawRow(0, "EURUSD", "SELL", 0, Hour, Rat(1, 10), Num(1), Rat(9, 10), NaN),
      RawRow(0, "EURUSD", "BUY", 2400 * MsPerSecond, Hour, Rat(1, 2), Num(1), NaN, NaN),
      RawRow(0, "EURUSD", "BUY", Hour, 2 * Hour, Rat(1, 2), Num(1), NaN, NaN),
      RawRow(0, "EURUSD", "BUY", Day, Day + Hour, Rat(1, 10), Num(1), Num(0), NaN)>>
Rows16 == {RowSeq16[k] : k \in 1..Len(RowSeq16)}

\* Rule 18 inputs: currency pairs, gold and an index, opening at midnight or
\* five minutes later.
MaxTrades18 == 2
Rows18 ==
    {RawRow(0, ins, "BUY", o, o + Hour, Num(1), Num(1), NaN, NaN) :
        ins \in {"EURUSD", "XAUUSD", "NAS100"}, o \in {0, 300 * MsPerSecond}}

\* Rule 23 inputs: a trade at 10:00 on each of seven consecutive days, one in
\* the last second of the first day and one at midnight of the second.
MaxTrades23 == 8
Opens23 ==
    {n * Day + 10 * Hour : n \in 0..6} \cup {Day - MsPerSecond, Day}
Rows23 == {RawRow(0, "EURUSD", "BUY", o, o + Hour, Num(1), Num(1), NaN, NaN) : o \in Opens23}

\* Rule 4 inputs: gold bought at 2000 at 10:00 on one of three days.  The
\* plain trades are 0.06 lot with Stop Loss 1950 and Take Profit 2100 and last
\* 60 s or 61 s; an odd trade differs from the 60 s one in one respect (59 s,
\* 0.0601 lot, Stop Loss 1940 or Take Profit 2110); an incomplete trade has no
\* Stop Loss or no Take Profit.
MaxTrades4 == 11
Shapes4 ==
    {<<60, Rat(6, 100), Num(1950), Num(2100)>>, <<61, Rat(6, 100), Num(1950), Num(2100)>>,
     <<59, Rat(6, 100), Num(1950), Num(2100)>>, <<60, Rat(601, 10000), Num(1950), Num(2100)>>,
     <<60, Rat(6, 100), Num(1940), Num(2100)>>, <<60, Rat(6, 100), Num(1950), Num(2110)>>,
     <<60, Rat(6, 100), NaN, Num(2100)>>, <<60, Rat(6, 100), Num(1950), NaN>>}
Rows4 ==
    {RawRow(0, "XAUUSD", "BUY", n * Day + 10 * Hour,
            n * Day + 10 * Hour + shape[1] * MsPerSecond,
            shape[2], Num(2000), shape[3], shape[4]) : n \in 0..2, shape \in Shapes4}

\* The kinds of Rule 4 rows.
Incomplete4(t) == ~notna(t.stop_loss) \/ ~notna(t.take_profit)
Plain4(t, seconds) ==
    /\ t.close_time - t.open_time = seconds * MsPerSecond
    /\ t.lots = Rat(6, 100) /\ t.stop_loss = Num(1950) /\ t.take_profit = Num(2100)
Odd4(t) == ~Incomplete4(t) /\ ~Plain4(t, 60) /\ ~Plain4(t, 61)

\* The files of Rule 4: an incomplete or an odd trade comes first, except that
\* the 59 s trade comes anywhere in a file without an incomplete trade; there
\* is at most one odd trade, the 60 s trades come before the 61 s ones, and
\* the opening days go round two or three days.
FileOrder4(table, raw) ==
    LET days == IF Len(table) >= 3 /\ table[3].open_time \div Day = 0 THEN 2 ELSE 3
        Has(Test(_)) == \E k \in 1..Len(table) : Test(table[k])
        Plain61(t) == Plain4(t, 61)
    IN  /\ Incomplete4(raw) => table = <<>>
        /\ Odd4(raw) => /\ ~Has(Odd4) /\ ~Has(Incomplete4)
                        /\ table = <<>> \/ raw.close_time - raw.open_time = 59 * MsPerSecond
        /\ Plain4(raw, 60) => ~Has(Plain61)
        /\ IF Len(table) = 2 THEN raw.open_time \div Day \in {0, 2}
           ELSE raw.open_time \div Day = Len(table) % days

Rows(r) ==
    CASE r = 1 -> Rows1
      [] r = 4 -> Rows4
      [] r = 23 -> Rows23
      [] r = 18 -> Rows18
      [] r = 16 -> Rows16
      [] r = 17 -> Rows17
      [] r = 12 -> Rows12
      [] r = 14 -> Rows14
      [] r = 13 -> Rows13
      [] r = 15 -> Rows15
      [] r = 19 -> Rows19

MaxTrades(r) ==
    CASE r = 1 -> MaxTrades1
      [] r = 4 -> MaxTrades4
      [] r = 23 -> MaxTrades23
      [] r = 18 -> MaxTrades18
      [] r = 16 -> MaxTrades16
      [] r = 17 -> MaxTrades17
      [] r = 12 -> MaxTrades12
      [] r = 14 -> MaxTrades14
      [] r = 13 -> MaxTrades13
      [] r = 15 -> MaxTrades15
      [] r = 19 -> MaxTrades19

TypeDefaults ==
    /\ df = <<>>
    /\ pc = "load"
    /\ loop_i = 0
    /\ violations = <<>>
    /\ flagged = <<>>
    /\ result = NoResult
    /\ phases = <<>>
    /\ results = <<>>
    /\ df_with_sl_tp = <<>>
    /\ pattern_groups = <<>>
    /\ used_indices = {}
    /\ active_rules = <<>>
    /\ locals = <<>>

\* The place of a row of a Rule 16 file in RowSeq16.
RowRank16(row) ==
    CHOOSE k \in 1..Len(RowSeq16) :
        /\ RowSeq16[k].open_time = row.open_time
        /\ RowSeq16[k].lots = row.lots
        /\ RowSeq16[k].stop_loss = row.stop_loss

\* The orders in which the rows of a file come: any, except for Rule 16, for
\* Rule 4 and, newest first without two trades opening at once, for Rule 23.
FileOrder(r, table, raw) ==
    /\ r = 16 /\ table # <<>> => RowRank16(raw) <= RowRank16(table[Len(table)])
    /\ r = 23 /\ table # <<>> => raw.open_time < table[Len(table)].open_time
    /\ r = 4 => FileOrder4(table, raw)

\* One more row of the file is read into the table.
LoadRow ==
    /\ pc = "load"
    /\ Len(df) < MaxTrades(rule)
    /\ \E raw \in Rows(rule) :
          /\ FileOrder(rule, df, raw)
          /\ df' = Append(df, load_row([raw EXCEPT !.position_id = Len(df) + 1], Len(df)))
    /\ UNCHANGED <<account_type, account_equity, addon_enabled, rule, pc,
                   loop_i, violations, flagged, result, phases, results, df_with_sl_tp, pattern_groups, used_indices, active_rules, locals>>

Return(res) ==
    /\ result' = res
    /\ pc' = "done"
    /\ UNCHANGED <<df, account_type, account_equity, addon_enabled, rule,
                   loop_i, violations, flagged, phases, results, df_with_sl_tp, pattern_groups, used_indices, active_rules, locals>>

execute_rule_1 ==
    /\ pc = "load"
    /\ rule = 1
    /\ Return(check_hedging_violation(df))

Init1 ==
    /\ TypeDefaults
    /\ rule = 1
    /\ account_type = "Funded Phase"
    /\ account_equity = 100000
    /\ addon_enabled = FALSE

Next1 == LoadRow \/ execute_rule_1

Spec1 == Init1 /\ [][Next1]_vars

\* Rule 19 reads the minimum and maximum time of the table, so it is run on
\* tables with at least one row (the normalizer rejects an empty file).
execute_rule_19 ==
    /\ pc = "load"
    /\ rule = 19
    /\ Len(df) >= 1
    /\ IF addon_enabled
       THEN Return([rule_number |-> 19, status |-> STATUS_PASSED, violations |-> <<>>,
                    message |-> "Skipped - Add-on enabled"])
       ELSE Return(check_weekend_trading(df, addon_enabled))

\* Rule 19 through the rule script.
Rule_19_main ==
    /\ pc = "load"
    /\ rule = 19
    /\ Len(df) >= 1
    /\ Return(check_weekend_trading(df, addon_enabled))

Init19 ==
    /\ TypeDefaults
    /\ rule = 19
    /\ account_type = "Funded Phase"
    /\ account_equity = 100000
    /\ addon_enabled \in BOOLEAN

Next19 == LoadRow \/ execute_rule_19 \/ Rule_19_main

Spec19 == Init19 /\ [][Next19]_vars

execute_rule_15 ==
    /\ pc = "load"
    /\ rule = 15
    /\ Return(check_one_sided_bets(df))

Init15 ==
    /\ TypeDefaults
    /\ rule = 15
    /\ account_type = "Funded Phase"
    /\ account_equity = 100000
    /\ addon_enabled = FALSE

Next15 == LoadRow \/ execute_rule_15

Spec15 == Init15 /\ [][Next15]_vars

execute_rule_13 ==
    /\ pc = "load"
    /\ rule = 13
    /\ Return(check_margin_usage(df, account_equity, account_type))

Init13 ==
    /\ TypeDefaults
    /\ rule = 13
    /\ account_type \in {"2-Step Phase 1", "Funded Phase"}
    /\ account_equity \in {10000, 100000}
    /\ addon_enabled = FALSE

Next13 == LoadRow \/ execute_rule_13

Spec13 == Init13 /\ [][Next13]_vars

execute_rule_14 ==
    /\ pc = "load"
    /\ rule = 14
    /\ Return(check_gambling(df))

Init14 ==
    /\ TypeDefaults
    /\ rule = 14
    /\ account_type = "Funded Phase"
    /\ account_equity = 100000
    /\ addon_enabled = FALSE

Next14 == LoadRow \/ execute_rule_14

Spec14 == Init14 /\ [][Next14]_vars

execute_rule_12 ==
    /\ pc = "load"
    /\ rule = 12
    /\ Return(check_all_or_nothing(df, account_equity, account_type))

Init12 ==
    /\ TypeDefaults
    /\ rule = 12
    /\ account_type = "Funded Phase"
    /\ account_equity = 5000
    /\ addon_enabled = FALSE

Next12 == LoadRow \/ execute_rule_12

Spec12 == Init12 /\ [][Next12]_vars

execute_rule_17 ==
    /\ pc = "load"
    /\ rule = 17
    /\ IF account_type # "Direct Funding"
       THEN Return([status |-> STATUS_NOT_TESTABLE, violations |-> <<>>])
       ELSE Return(check_max_risk_per_idea(df, account_equity, account_type))

Init17 ==
    /\ TypeDefaults
    /\ rule = 17
    /\ account_type \in {"Direct Funding", "Funded Phase"}
    /\ account_equity = 5000
    /\ addon_enabled = FALSE

Next17 == LoadRow \/ execute_rule_17

Spec17 == Init17 /\ [][Next17]_vars

\* The runs of the two risk rules together.
Init12_17 == Init12 \/ Init17

Next12_17 == LoadRow \/ execute_rule_12 \/ execute_rule_17

Spec12_17 == Init12_17 /\ [][Next12_17]_vars

\* Rule 16 is evaluated one window at a time: entry, one step per row of the
\* sorted frame, and the return.
execute_rule_16 ==
    /\ pc = "load"
    /\ rule = 16
    /\ pc' = "loop"
    /\ loop_i' = 0
    /\ violations' = <<>>
    /\ flagged' = <<>>
    /\ UNCHANGED <<df, account_type, account_equity, addon_enabled, rule, result, phases, results, df_with_sl_tp, pattern_groups, used_indices, active_rules, locals>>

abuse_window_step ==
    /\ pc = "loop"
    /\ rule = 16
    /\ loop_i < Len(df)
    /\ LET step == abuse_window(sort_values(df), loop_i + 1, account_equity, violations)
       IN  /\ violations' = step.violations
           /\ flagged' = Append(flagged, step.violating)
    /\ loop_i' = loop_i + 1
    /\ UNCHANGED <<df, account_type, account_equity, addon_enabled, rule, pc, result, phases, results, df_with_sl_tp, pattern_groups, used_indices, active_rules, locals>>

abuse_return ==
    /\ pc = "loop"
    /\ rule = 16
    /\ loop_i = Len(df)
    /\ result' = [status |-> IF violations # <<>> THEN STATUS_VIOLATED ELSE STATUS_PASSED,
                  violations |-> violations,
                  total_trades |-> Len(df)]
    /\ pc' = "done"
    /\ UNCHANGED <<df, account_type, account_equity, addon_enabled, rule,
                   loop_i, violations, flagged, phases, results, df_with_sl_tp, pattern_groups, used_indices, active_rules, locals>>

Init16 ==
    /\ TypeDefaults
    /\ rule = 16
    /\ account_type = "Funded Phase"
    /\ account_equity = 5000
    /\ addon_enabled = FALSE

Next16 == LoadRow \/ execute_rule_16 \/ abuse_window_step \/ abuse_return

Spec16 == Init16 /\ [][Next16]_vars

\* Rule 18 through the executor and through the rule script.
execute_rule_18 ==
    /\ pc = "load"
    /\ rule = 18
    /\ IF addon_enabled
       THEN Return([rule_number |-> 18, status |-> STATUS_PASSED, violations |-> <<>>,
                    message |-> "Skipped - Add-on enabled"])
       ELSE Return(check_news_trading(df, addon_enabled))

Rule_18_main ==
    /\ pc = "load"
    /\ rule = 18
    /\ Return(check_news_trading(df, addon_enabled))

Init18 ==
    /\ TypeDefaults
    /\ rule = 18
    /\ account_type = "Funded Phase"
    /\ account_equity = 100000
    /\ addon_enabled \in BOOLEAN

Next18 == LoadRow \/ execute_rule_18 \/ Rule_18_main

Spec18 == Init18 /\ [][Next18]_vars

\* The runs of the two add-on rules together.
Init18_19 == Init18 \/ Init19

Next18_19 ==
    LoadRow \/ execute_rule_18 \/ Rule_18_main \/ execute_rule_19 \/ Rule_19_main

Spec18_19 == Init18_19 /\ [][Next18_19]_vars

execute_rule_23 ==
    /\ pc = "load"
    /\ rule = 23
    /\ Return(check_minimum_trading_days(df, account_type))

Init23 ==
    /\ TypeDefaults
    /\ rule = 23
    /\ account_type \in DOMAIN ACCOUNT_TYPES
    /\ account_equity = 100000
    /\ addon_enabled = FALSE

Next23 == LoadRow \/ execute_rule_23

Spec23 == Init23 /\ [][Next23]_vars

\* Rule 3 inputs, for an equity of 100000: a phase is n trades of gold opened
\* at 10:00, one after the other on the days 0 .. days-1 in turn, that last
\* one of two durations in turn, with a stop loss 50 points away, at the
\* entry, 0 or absent.
PhaseTable(n, days, durations, lots, stop_loss) ==
    [k \in 1..n |->
        load_row(RawRow(k, "XAUUSD", "BUY",
                         ((k - 1) % days) * Day + 10 * Hour,
                         ((k - 1) % days) * Day + 10 * Hour
                             + durations[((k - 1) % 2) + 1] * MsPerSecond,
                         lots, Num(2000), stop_loss, NaN), k - 1)]

MaxPhases == 2
PhaseNames == {"Phase 1", "Phase 2", "Funded Phase", "Direct Funding"}
PhaseTables ==
    {PhaseTable(24, 15, <<30, 30>>, Rat(1, 10), Num(1950)),
     PhaseTable(24, 5, <<90, 90>>, Rat(1, 10), Num(1950)),
     PhaseTable(20, 5, <<60, 120>>, Rat(3, 10), Num(1950)),
     PhaseTable(21, 7, <<30, 90>>, Rat(3, 10), NaN),
     PhaseTable(20, 20, <<0, 0>>, Rat(1, 10), Num(2000)),
     PhaseTable(20, 10, <<90, 90>>, Rat(1, 10), Num(0)),
     PhaseTable(19, 1, <<90, 90>>, Rat(3, 10), Num(1950))}

\* One more labeled file is added to the phases.
LoadPhase ==
    /\ pc = "load"
    /\ rule = 3
    /\ Len(phases) < MaxPhases
    /\ \E name \in PhaseNames, table \in PhaseTables :
          /\ ~phase_in(name, phases)
          /\ phases' = Append(phases, [name |-> name, df |-> table])
    /\ UNCHANGED <<df, account_type, account_equity, addon_enabled, rule, pc,
                   loop_i, violations, flagged, result, results, df_with_sl_tp, pattern_groups, used_indices, active_rules, locals>>

execute_rule_3 ==
    /\ pc = "load"
    /\ rule = 3
    /\ IF Len(phases) < 2
       THEN Return([rule_number |-> 3, status |-> STATUS_NOT_TESTABLE, violations |-> <<>>,
                    phase1_trades |-> IF phases # <<>> THEN Len(phases[1].df) ELSE 0,
                    phase2_trades |-> 0])
       ELSE LET pair == rule_3_phases(phases)
            IN  Return(check_strategy_consistency(pair[1], pair[2],
                                                  account_equity, account_equity))

Init3 ==
    /\ TypeDefaults
    /\ rule = 3
    /\ account_type = "Funded Phase"
    /\ account_equity = 100000
    /\ addon_enabled = FALSE

Next3 == LoadPhase \/ execute_rule_3

Spec3 == Init3 /\ [][Next3]_vars

\* check_ea_violation up to the call of find_pattern_groups: the trades with
\* Stop Loss and Take Profit are kept, and fewer than 10 of them end the
\* evaluation.
check_ea_violation ==
    /\ pc = "load"
    /\ rule = 4
    /\ \E kept \in {with_sl_tp(df)} :
           IF Len(kept) < EA_DETECTION_MIN_TRADES
           THEN Return([rule_number |-> 4, status |-> STATUS_NOT_TESTABLE,
                        total_trades |-> Len(df), trades_with_sl_tp |-> Len(kept),
                        violations |-> <<>>])
           ELSE /\ pc' = "find_pattern_groups"
                /\ df_with_sl_tp' = kept
                /\ loop_i' = 1
                /\ pattern_groups' = <<>>
                /\ used_indices' = {}
                /\ UNCHANGED <<df, account_type, account_equity, addon_enabled, rule,
                               violations, flagged, result, phases, results, active_rules, locals>>

\* One iteration of the outer loop of find_pattern_groups.
find_pattern_groups ==
    /\ pc = "find_pattern_groups"
    /\ loop_i <= Len(df_with_sl_tp)
    /\ \E st \in {find_pattern_groups_iteration(
                     df_with_sl_tp, loop_i,
                     [pattern_groups |-> pattern_groups, used_indices |-> used_indices])} :
           /\ pattern_groups' = st.pattern_groups
           /\ used_indices' = st.used_indices
    /\ loop_i' = loop_i + 1
    /\ UNCHANGED <<df, account_type, account_equity, addon_enabled, rule, pc,
                   violations, flagged, result, phases, results, df_with_sl_tp, active_rules, locals>>

\* find_pattern_groups returns and check_ea_violation checks the groups.
check_ea_violation_groups ==
    /\ pc = "find_pattern_groups"
    /\ loop_i > Len(df_with_sl_tp)
    /\ Return(ea_result(df, df_with_sl_tp, pattern_groups))

Init4 ==
    /\ TypeDefaults
    /\ rule = 4
    /\ account_type = "Funded Phase"
    /\ account_equity = 100000
    /\ addon_enabled = FALSE

Next4 == LoadRow \/ check_ea_violation \/ find_pattern_groups \/ check_ea_violation_groups

Spec4 == Init4 /\ [][Next4]_vars

\* The verdict over a list of rule results: the list is any list of up to
\* MaxResults results, with one of the three statuses, another status, or
\* none.
MaxResults == 4
ResultStatuses == {STATUS_PASSED, STATUS_VIOLATED, STATUS_NOT_TESTABLE, "ERROR"}

RuleResult ==
    /\ pc = "results"
    /\ Len(results) < MaxResults
    /\ \/ \E status \in ResultStatuses :
             results' = Append(results, [rule_number |-> Len(results) + 1,
                                         status |-> status])
       \/ results' = Append(results, [rule_number |-> Len(results) + 1])
    /\ UNCHANGED <<df, account_type, account_equity, addon_enabled, rule, pc,
                   loop_i, violations, flagged, result, phases,
                   df_with_sl_tp, pattern_groups, used_indices, active_rules, locals>>

overall_verdict ==
    /\ pc = "results"
    /\ result' = calculate_overall_status(results)
    /\ pc' = "overall"
    /\ UNCHANGED <<df, account_type, account_equity, addon_enabled, rule,
                   loop_i, violations, flagged, phases, results,
                   df_with_sl_tp, pattern_groups, used_indices, active_rules, locals>>

InitOverall ==
    /\ locals = <<>>
    /\ df = <<>>
    /\ pc = "results"
    /\ loop_i = 0
    /\ violations = <<>>
    /\ flagged = <<>>
    /\ result = NoResult
    /\ phases = <<>>
    /\ results = <<>>
    /\ df_with_sl_tp = <<>>
    /\ pattern_groups = <<>>
    /\ used_indices = {}
    /\ active_rules = <<>>
    /\ rule = 0
    /\ account_type = "Funded Phase"
    /\ account_equity = 100000
    /\ addon_enabled = FALSE

NextOverall == RuleResult \/ overall_verdict

SpecOverall == InitOverall /\ [][NextOverall]_vars

\* execute_all_rules: the entry, one iteration of the loop over active_rules
\* (the evaluator returns or raises), and the return.  The phases are one or
\* two small tables; at most MaxRaised evaluators raise in a run.
MaxRaised == 2
Tables0 ==
    <<<<load_row(RawRow(1, "EURUSD", "BUY", 10 * Hour, 10 * Hour + 2000,
                        Num(1), Rat(11, 10), NaN, NaN), 0),
        load_row(RawRow(2, "EURUSD", "SELL", 10 * Hour + 1000, 10 * Hour + 3000,
                        Num(1), Rat(11, 10), NaN, NaN), 1)>>,
      <<load_row(RawRow(3, "XAUUSD", "BUY", Day + 10 * Hour, Day + 11 * Hour,
                        Rat(1, 10), Num(2000), Num(1950), Num(2100)), 0)>>>>
Phases0 ==
    {<<>>,
     <<[name |-> "Phase 1", df |-> Tables0[1]]>>,
     <<[name |-> "Phase 1", df |-> Tables0[2]]>>,
     <<[name |-> "Phase 1", df |-> Tables0[1]], [name |-> "Phase 2", df |-> Tables0[2]]>>}
ActiveRules0(type, addon) ==
    {determine_active_rules(type, addon), <<19, 99, 17, 18>>, <<>>}

\* The start of execute_all_rules, up to the loop.  Without any phase,
\* pd.concat has no objects to concatenate and raises a ValueError, outside
\* the try of the loop: the call ends with the exception.
execute_all_rules ==
    /\ pc = "execute_all_rules"
    /\ results' = <<>>
    /\ loop_i' = 0
    /\ IF phases = <<>>
       THEN /\ pc' = "raised"
            /\ df' = df
       ELSE /\ pc' = "for"
            /\ df' = main_df_of(phases)
    /\ UNCHANGED <<account_type, account_equity, addon_enabled, rule, violations,
                   flagged, result, phases, df_with_sl_tp, pattern_groups,
                   used_indices, active_rules, locals>>

Raised(rs) == {k \in 1..Len(rs) : "error_details" \in DOMAIN rs[k]}

execute_all_rules_for ==
    /\ pc = "for"
    /\ loop_i < Len(active_rules)
    /\ LET rule_num == active_rules[loop_i + 1]
       IN  /\ rule' = rule_num
           /\ \/ results' = Append(results,
                                   rule_result(rule_num, phases, df, account_type,
                                               account_equity, addon_enabled,
                                               addon_enabled))
              \/ /\ Cardinality(Raised(results)) < MaxRaised
                 /\ results' = append_error(results, rule_num)
    /\ loop_i' = loop_i + 1
    /\ UNCHANGED <<df, account_type, account_equity, addon_enabled, pc, violations,
                   flagged, result, phases, df_with_sl_tp, pattern_groups,
                   used_indices, active_rules, locals>>

execute_all_rules_return ==
    /\ pc = "for"
    /\ loop_i >= Len(active_rules)
    /\ pc' = "done"
    /\ rule' = 0
    /\ UNCHANGED <<df, account_type, account_equity, addon_enabled, loop_i,
                   violations, flagged, result, phases, results, df_with_sl_tp,
                   pattern_groups, used_indices, active_rules, locals>>

InitAll ==
    /\ locals = <<>>
    /\ df = <<>>
    /\ pc = "execute_all_rules"
    /\ loop_i = 0
    /\ violations = <<>>
    /\ flagged = <<>>
    /\ result = NoResult
    /\ results = <<>>
    /\ df_with_sl_tp = <<>>
    /\ pattern_groups = <<>>
    /\ used_indices = {}
    /\ rule = 0
    /\ account_equity = 100000
    /\ account_type \in {"Funded Phase", "Direct Funding"}
    /\ addon_enabled \in BOOLEAN
    /\ phases \in Phases0
    /\ active_rules \in ActiveRules0(account_type, addon_enabled)

NextAll == execute_all_rules \/ execute_all_rules_for \/ execute_all_rules_return

SpecAll == InitAll /\ [][NextAll]_vars

\* The quality gate: a file of up to MaxRows rows, of which the first two
\* and the last two of a full file may have no Lots value, goes through one
\* of the two validations.
MaxRows == 50
ReadRow ==
    /\ pc = "read"
    /\ Len(df) < MaxRows
    /\ \E lots \in {Num(1)} \cup (IF Len(df) < 2 \/ Len(df) >= MaxRows - 2
                                  THEN {NaN} ELSE {}) :
          df' = Append(df, RawRow(Len(df) + 1, "EURUSD", "BUY", 0, Hour, lots,
                                  Num(1), NaN, NaN))
    /\ UNCHANGED <<account_type, account_equity, addon_enabled, rule, pc,
                   loop_i, violations, flagged, result, phases, results,
                   df_with_sl_tp, pattern_groups, used_indices, active_rules, locals>>

validate_uploaded_file ==
    /\ pc = "read"
    /\ result' = validate_csv_file(df)
    /\ pc' = "validate_csv_file"
    /\ UNCHANGED <<df, account_type, account_equity, addon_enabled, rule,
                   loop_i, violations, flagged, phases, results,
                   df_with_sl_tp, pattern_groups, used_indices, active_rules, locals>>

validate_loaded_file ==
    /\ pc = "read"
    /\ result' = validate_csv_quality(df)
    /\ pc' = "validate_csv_quality"
    /\ UNCHANGED <<df, account_type, account_equity, addon_enabled, rule,
                   loop_i, violations, flagged, phases, results,
                   df_with_sl_tp, pattern_groups, used_indices, active_rules, locals>>

InitCsv ==
    /\ locals = <<>>
    /\ df = <<>>
    /\ pc = "read"
    /\ loop_i = 0
    /\ violations = <<>>
    /\ flagged = <<>>
    /\ result = NoResult
    /\ phases = <<>>
    /\ results = <<>>
    /\ df_with_sl_tp = <<>>
    /\ pattern_groups = <<>>
    /\ used_indices = {}
    /\ active_rules = <<>>
    /\ rule = 0
    /\ account_type = "Funded Phase"
    /\ account_equity = 100000
    /\ addon_enabled = FALSE

NextCsv == ReadRow \/ validate_uploaded_file \/ validate_loaded_file

SpecCsv == InitCsv /\ [][NextCsv]_vars

\* Rule 3 pairing inputs: up to MaxLabeledPhases files, each given one of the
\* labels the dashboard offers; the k-th file added holds k trades, so that
\* the trade counts of a result tell which two tables were compared.
MaxLabeledPhases == 3
PhaseLabels == PhaseNames \cup {"Unassigned"}
LabeledTable(k) == PhaseTable(k, 1, <<90, 90>>, Rat(1, 10), Num(1950))

LoadLabeledPhase ==
    /\ pc = "load"
    /\ rule = 3
    /\ Len(phases) < MaxLabeledPhases
    /\ \E name \in PhaseLabels :
          /\ ~phase_in(name, phases)
          /\ phases' = Append(phases, [name |-> name,
                                       df |-> LabeledTable(Len(phases) + 1)])
    /\ UNCHANGED <<df, account_type, account_equity, addon_enabled, rule, pc,
                   loop_i, violations, flagged, result, results, df_with_sl_tp, pattern_groups, used_indices, active_rules, locals>>

Next3Pairing == LoadLabeledPhase \/ execute_rule_3

Spec3Pairing == Init3 /\ [][Next3Pairing]_vars

\* get_weekend_windows step by step.  The range goes from one to another of
\* these instants of MaxWeeks weeks, from the week two weeks before the
\* reference Monday on: around the start and the end of the weekend window,
\* and on days outside it.
MaxWeeks == 2
RangeInstants ==
    {At(7 * w + d[1], d[2], d[3], d[4], d[5]) :
        w \in -2..(MaxWeeks - 3),
        d \in {<<0, 0, 0, 0, 0>>,         \* Monday 00:00
               <<3, 12, 30, 0, 0>>,       \* Thursday 12:30
               <<4, 0, 0, 0, 0>>,         \* Friday 00:00
               <<4, 21, 59, 59, 999>>,    \* Friday 21:59:59.999
               <<4, 22, 0, 0, 0>>,        \* Friday 22:00
               <<5, 12, 0, 0, 0>>,        \* Saturday 12:00
               <<6, 21, 59, 59, 999>>,    \* Sunday 21:59:59.999
               <<6, 22, 0, 0, 0>>,        \* Sunday 22:00
               <<6, 23, 30, 0, 0>>}}      \* Sunday 23:30

\* The statements before the loop: the Friday 00:00 at or before start_date.
get_weekend_windows_start ==
    /\ pc = "get_weekend_windows"
    /\ LET midnight == locals.start_date - (locals.start_date % Day)
           days_since_friday == (weekday(midnight) - 4) % 7
       IN  locals' = [locals EXCEPT !.current = midnight - days_since_friday * Day,
                                    !.weekend_windows = <<>>]
    /\ pc' = "while"
    /\ UNCHANGED <<df, account_type, account_equity, addon_enabled, rule, loop_i,
                   violations, flagged, result, phases, results, df_with_sl_tp,
                   pattern_groups, used_indices, active_rules>>

\* One iteration of the while loop.
get_weekend_windows_while ==
    /\ pc = "while"
    /\ locals.current <= locals.end_date + 7 * Day
    /\ LET weekend_start == locals.current + 22 * Hour
           weekend_end == weekend_start + 2 * Day
       IN  locals' = [locals EXCEPT
                         !.weekend_windows =
                             IF weekend_end >= locals.start_date
                                /\ weekend_start <= locals.end_date
                             THEN Append(@, <<weekend_start, weekend_end>>)
                             ELSE @,
                         !.current = @ + 7 * Day]
    /\ UNCHANGED <<df, account_type, account_equity, addon_enabled, rule, pc, loop_i,
                   violations, flagged, result, phases, results, df_with_sl_tp,
                   pattern_groups, used_indices, active_rules>>

\* The loop condition fails and the list is returned.
get_weekend_windows_return ==
    /\ pc = "while"
    /\ ~(locals.current <= locals.end_date + 7 * Day)
    /\ pc' = "done"
    /\ UNCHANGED <<df, account_type, account_equity, addon_enabled, rule, loop_i,
                   violations, flagged, result, phases, results, df_with_sl_tp,
                   pattern_groups, used_indices, active_rules, locals>>

InitWeekend ==
    /\ df = <<>>
    /\ loop_i = 0
    /\ violations = <<>>
    /\ flagged = <<>>
    /\ result = NoResult
    /\ phases = <<>>
    /\ results = <<>>
    /\ df_with_sl_tp = <<>>
    /\ pattern_groups = <<>>
    /\ used_indices = {}
    /\ active_rules = <<>>
    /\ pc = "get_weekend_windows"
    /\ rule = 0
    /\ account_type = "Funded Phase"
    /\ account_equity = 100000
    /\ addon_enabled = FALSE
    /\ \E s \in RangeInstants, e \in RangeInstants :
          locals = [start_date |-> s, end_date |-> e, current |-> 0,
                    weekend_windows |-> <<>>]

NextWeekend ==
    get_weekend_windows_start \/ get_weekend_windows_while \/ get_weekend_windows_return

SpecWeekend == InitWeekend /\ [][NextWeekend]_vars

\* The statements of the function run one after the other until it returns.
FairSpecWeekend == SpecWeekend /\ WF_vars(NextWeekend)

\* Rule 17 grouping inputs, for an equity of 5000: index trades that open at
\* 0 s, 300 s and 301 s and gold trades that open at 0 s, 60 s and 61 s, each
\* with a stop loss (risking 1.05% of the equity) or without one, and an
\* index trade in the other direction.
MaxIdeaTrades == 3
Rows17Ideas ==
    {RawRow(0, o[1], "BUY", o[2], o[2] + Hour,
            IF o[1] = "NAS100" THEN Rat(105, 1000) ELSE Rat(105, 10000),
            IF o[1] = "NAS100" THEN Num(1975) ELSE Num(2000), sl, NaN) :
        o \in Opens17, sl \in {Num(1950), NaN}}
    \cup {RawRow(0, "NAS100", "SELL", 300 * MsPerSecond, 300 * MsPerSecond + Hour,
                  Rat(105, 1000), Num(1925), Num(1950), NaN)}

LoadIdeaRow ==
    /\ pc = "load"
    /\ rule = 17
    /\ Len(df) < MaxIdeaTrades
    /\ \E raw \in Rows17Ideas :
          df' = Append(df, load_row([raw EXCEPT !.position_id = Len(df) + 1], Len(df)))
    /\ UNCHANGED <<account_type, account_equity, addon_enabled, rule, pc,
                   loop_i, violations, flagged, result, phases, results, df_with_sl_tp,
                   pattern_groups, used_indices, active_rules, locals>>

\* check_max_risk_per_idea, keeping its locals df_with_sl and trade_ideas;
\* the early returns come before the trades are grouped.
check_max_risk_per_idea_locals ==
    /\ pc = "load"
    /\ rule = 17
    /\ \E df_with_sl \in {Filter(df, has_stop_loss)} :
          locals' = IF account_type # "Direct Funding" THEN <<>>
                    ELSE IF Len(df_with_sl) = 0 THEN [df_with_sl |-> df_with_sl]
                    ELSE [df_with_sl |-> df_with_sl,
                          trade_ideas |-> group_trades_into_ideas(df_with_sl)]
    /\ result' = check_max_risk_per_idea(df, account_equity, account_type)
    /\ pc' = "done"
    /\ UNCHANGED <<df, account_type, account_equity, addon_enabled, rule,
                   loop_i, violations, flagged, phases, results, df_with_sl_tp,
                   pattern_groups, used_indices, active_rules>>

Next17Ideas == LoadIdeaRow \/ check_max_risk_per_idea_locals

Spec17Ideas == Init17 /\ [][Next17Ideas]_vars

\* An evaluator run twice on one table, through the executor: a table of two
\* hedged trades, a single gold trade, three gold trades out of time order,
\* and, for Rule 4, ten identical gold trades on three days.
TablesTwice ==
    {Tables0[1], Tables0[2],
     [k \in 1..3 |->
         load_row(RawRow(k, "XAUUSD", "BUY", (12 - k) * Hour, (13 - k) * Hour,
                         Rat(1, 10), Num(2000), Num(1950), NaN), k - 1)],
     [k \in 1..10 |->
         load_row(RawRow(k, "XAUUSD", "BUY", (k % 3) * Day + 10 * Hour,
                         (k % 3) * Day + 10 * Hour + 60 * MsPerSecond,
                         Rat(6, 100), Num(2000), Num(1950), Num(2100)), k - 1)]}

\* The evaluator of `rule` runs on df; its result is collected.
run_evaluator ==
    /\ pc \in {"first run", "second run"}
    /\ \E res \in {rule_result(rule, phases, df, account_type, account_equity,
                               addon_enabled, addon_enabled)} :
          results' = Append(results, res)
    /\ df' = frame_after(rule, df)
    /\ pc' = IF pc = "first run" THEN "second run" ELSE "done"
    /\ UNCHANGED <<account_type, account_equity, addon_enabled, rule, loop_i,
                   violations, flagged, result, phases, df_with_sl_tp,
                   pattern_groups, used_indices, active_rules, locals>>

InitTwice ==
    /\ pc = "first run"
    /\ loop_i = 0
    /\ violations = <<>>
    /\ flagged = <<>>
    /\ result = NoResult
    /\ results = <<>>
    /\ df_with_sl_tp = <<>>
    /\ pattern_groups = <<>>
    /\ used_indices = {}
    /\ active_rules = <<>>
    /\ account_equity = 5000
    /\ account_type \in {"Funded Phase", "Direct Funding"}
    /\ addon_enabled \in BOOLEAN
    /\ rule \in {all_rules[k] : k \in 1..Len(all_rules)}
    /\ df \in TablesTwice
    /\ Len(df) = 10 => rule = 4
    /\ phases = <<[name |-> "Phase 1", df |-> df]>>
    /\ locals = [table |-> df]

NextTwice == run_evaluator

SpecTwice == InitTwice /\ [][NextTwice]_vars

\* The normalizer on a file: MaxPadding valid rows or none, then up to
\* MaxFileRows rows with times in order, reversed, equal, empty or no time,
\* or without Lots; a file with a Duration_Seconds column gives each row the
\* duration of its times or 5 seconds.  The file goes through
\* validate_csv_file, whose output is validated once more, or through
\* load_csv.
MaxFileRows == 2
MaxPadding == 19
FileTimes ==
    {<<TimeCell(10 * Hour), TimeCell(11 * Hour)>>,
     <<TimeCell(11 * Hour), TimeCell(10 * Hour)>>,
     <<TimeCell(10 * Hour), TimeCell(10 * Hour)>>,
     <<EmptyCell, TimeCell(11 * Hour)>>,
     <<TextCell, TimeCell(11 * Hour)>>}
FileRows(duration_column) ==
    {FileRow(0, t[1], t[2], Num(1), NaN, d) :
        t \in FileTimes,
        d \in IF duration_column THEN {Num(3600), Num(5)} ELSE {NaN}}
    \cup {FileRow(0, TimeCell(10 * Hour), TimeCell(11 * Hour), NaN, NaN,
                  IF duration_column THEN Num(3600) ELSE NaN)}
Padding(n, duration_column) ==
    [k \in 1..n |-> FileRow(k, TimeCell(10 * Hour), TimeCell(11 * Hour), Num(1), NaN,
                            IF duration_column THEN Num(3600) ELSE NaN)]

ReadFileRow ==
    /\ pc = "read"
    /\ Len(df.rows) < locals.padding + MaxFileRows
    /\ \E row \in FileRows(df.Duration_Seconds_column) :
          df' = [df EXCEPT !.rows = Append(@, [row EXCEPT !.position_id = Len(df.rows) + 1])]
    /\ UNCHANGED <<account_type, account_equity, addon_enabled, rule, pc,
                   loop_i, violations, flagged, result, phases, results,
                   df_with_sl_tp, pattern_groups, used_indices, active_rules, locals>>

\* The dashboard validates the uploaded file.
validate_upload ==
    /\ pc = "read"
    /\ result' = validate_and_clean(df)
    /\ pc' = "validate_csv_file"
    /\ UNCHANGED <<df, account_type, account_equity, addon_enabled, rule,
                   loop_i, violations, flagged, phases, results,
                   df_with_sl_tp, pattern_groups, used_indices, active_rules, locals>>

\* The accepted output is validated once more.
validate_output ==
    /\ pc = "validate_csv_file"
    /\ result.is_valid
    /\ locals' = [locals EXCEPT !.again = validate_and_clean(result.df)]
    /\ pc' = "validate_csv_file again"
    /\ UNCHANGED <<df, account_type, account_equity, addon_enabled, rule,
                   loop_i, violations, flagged, result, phases, results,
                   df_with_sl_tp, pattern_groups, used_indices, active_rules>>

\* A rule script loads the file.
load_file ==
    /\ pc = "read"
    /\ result' = load_csv(df)
    /\ pc' = "load_csv"
    /\ UNCHANGED <<df, account_type, account_equity, addon_enabled, rule,
                   loop_i, violations, flagged, phases, results,
                   df_with_sl_tp, pattern_groups, used_indices, active_rules, locals>>

InitNormalize ==
    /\ pc = "read"
    /\ loop_i = 0
    /\ violations = <<>>
    /\ flagged = <<>>
    /\ result = NoResult
    /\ phases = <<>>
    /\ results = <<>>
    /\ df_with_sl_tp = <<>>
    /\ pattern_groups = <<>>
    /\ used_indices = {}
    /\ active_rules = <<>>
    /\ rule = 0
    /\ account_type = "Funded Phase"
    /\ account_equity = 100000
    /\ addon_enabled = FALSE
    /\ \E padding \in {0, MaxPadding}, duration_column \in BOOLEAN :
          /\ locals = [padding |-> padding, again |-> NoResult]
          /\ df = [Duration_Seconds_column |-> duration_column,
                   rows |-> Padding(padding, duration_column)]

NextNormalize == ReadFileRow \/ validate_upload \/ validate_output \/ load_file

SpecNormalize == InitNormalize /\ [][NextNormalize]_vars

\* A rule script runs on a file and the app parses what it printed.  The
\* scripts are those of rules 1, 4, 14 and 17; the result of the evaluator
\* has up to MaxPrinted violations or pattern groups.
MaxPrinted == 2
\* "temp_file_1_Trades121.csv"
CsvFile == <<"t", "e", "m", "p", "_", "f", "i", "l", "e", "_", "1", "_", "T", "r", "a", "d", "e", "s", "1", "2", "1", ".", "c", "s", "v">>
\* "Phase 1"
TypePhase1 == <<"P", "h", "a", "s", "e", " ", "1">>
\* "Funded Phase"
TypeFunded == <<"F", "u", "n", "d", "e", "d", " ", "P", "h", "a", "s", "e">>
ScriptResults(rule_number) ==
    CASE rule_number = 1 ->
            {[status |-> IF v > 0 THEN STATUS_VIOLATED ELSE STATUS_PASSED,
              total_trades |-> t, violations_found |-> v] :
                t \in 1..MaxPrinted, v \in 0..MaxPrinted}
      [] rule_number = 4 ->
            {[status |-> STATUS_NOT_TESTABLE, total_trades |-> t,
              trades_with_sl_tp |-> t - 1, pattern_groups_found |-> 0] :
                t \in 1..MaxPrinted}
            \cup {[status |-> IF g > 0 THEN STATUS_VIOLATED ELSE STATUS_PASSED,
                   total_trades |-> EA_DETECTION_MIN_TRADES + t,
                   trades_with_sl_tp |-> EA_DETECTION_MIN_TRADES,
                   pattern_groups_found |-> g] :
                      t \in 1..MaxPrinted, g \in 0..MaxPrinted}
      [] rule_number = 14 ->
            {[status |-> IF 100 * n.short * GAMBLING_THRESHOLD_PERCENT[2]
                               > GAMBLING_THRESHOLD_PERCENT[1] * n.total
                         THEN STATUS_VIOLATED ELSE STATUS_PASSED,
              total_trades |-> n.total, short_trades_count |-> n.short] :
                n \in {m \in [total : 1..(MaxPrinted + 1), short : 0..(MaxPrinted + 1)] :
                          m.short <= m.total}}
      [] rule_number = 17 ->
            {[status |-> STATUS_NOT_TESTABLE, total_trades |-> t, message |-> m,
              account_equity |-> 0, trades_with_sl |-> 0, trade_ideas_found |-> 0,
              violations_found |-> 0] :
                t \in 1..MaxPrinted,
                m \in {NotTestable17Type \o TypePhase1, NotTestable17Type \o TypeFunded,
                       NotTestable17SL}}
            \cup {[status |-> IF v > 0 THEN STATUS_VIOLATED ELSE STATUS_PASSED,
                   total_trades |-> MaxPrinted, message |-> <<>>,
                   account_equity |-> e, trades_with_sl |-> MaxPrinted,
                   trade_ideas_found |-> MaxPrinted, violations_found |-> v] :
                      e \in {5000, 100000}, v \in 0..MaxPrinted}

\* run_single_rule starts the script and takes its standard output.
run_single_rule ==
    /\ pc = "run_single_rule"
    /\ locals' = [locals EXCEPT
                    !.output = main(rule, CsvFile, locals.swapped, result),
                    !.returncode = 0]
    /\ pc' = "parse_rule_status"
    /\ UNCHANGED <<df, account_type, account_equity, addon_enabled, rule,
                   loop_i, violations, flagged, result, phases, results,
                   df_with_sl_tp, pattern_groups, used_indices, active_rules>>

\* run_single_rule parses the output.
run_single_rule_status ==
    /\ pc = "parse_rule_status"
    /\ locals' = [locals EXCEPT
                    !.status = parse_rule_status(locals.output, locals.returncode)]
    /\ pc' = "parsed"
    /\ UNCHANGED <<df, account_type, account_equity, addon_enabled, rule,
                   loop_i, violations, flagged, result, phases, results,
                   df_with_sl_tp, pattern_groups, used_indices, active_rules>>

InitStatus ==
    /\ pc = "run_single_rule"
    /\ loop_i = 0
    /\ violations = <<>>
    /\ flagged = <<>>
    /\ phases = <<>>
    /\ results = <<>>
    /\ df = <<>>
    /\ df_with_sl_tp = <<>>
    /\ pattern_groups = <<>>
    /\ used_indices = {}
    /\ active_rules = <<>>
    /\ account_type = "Direct Funding"
    /\ account_equity = 100000
    /\ addon_enabled = FALSE
    /\ rule \in {1, 4, 14, 17}
    /\ result \in ScriptResults(rule)
    /\ \E swapped \in 0..1 :
          locals = [swapped |-> swapped, output |-> <<>>, returncode |-> 0,
                    status |-> "NONE"]

NextStatus == run_single_rule \/ run_single_rule_status

SpecStatus == InitStatus /\ [][NextStatus]_vars

-----------------------------------------------------------------------------
(* Claims                                                                  *)

Done(r) == pc = "done" /\ rule = r

\* The positions k of sequence s whose element satisfies Test.
Positions(s, Test(_)) == {k \in 1..Len(s) : Test(s[k])}

\* Rule 1: the pairs the rule is about, and their overlap.
HedgePair(i, j) ==
    /\ i < j
    /\ df[i].instrument = df[j].instrument
    /\ df[i].side # df[j].side
PairOverlap(i, j) ==
    Min(df[i].close_time, df[j].close_time) - Max(df[i].open_time, df[j].open_time)
PairReports(i, j) ==
    LET IsPair(v) == {v.Trade1_idx, v.Trade2_idx} = {df[i].idx, df[j].idx}
    IN  Cardinality(Positions(result.violations, IsPair))

\* C1: Rule 1 reports exactly one violation for every unordered pair of
\* distinct trades on the same instrument with opposite sides whose overlap
\* min(close) - max(open) is at least 1 second, none for any other pair, and
\* the status is VIOLATED iff such a pair exists, else PASSED (never
\* NOT_TESTABLE).
C1_Hedging ==
    Done(1) =>
        /\ \A i, j \in 1..Len(df) :
              i < j =>
                PairReports(i, j) =
                    IF HedgePair(i, j) /\ PairOverlap(i, j) >= 1000 THEN 1 ELSE 0
        /\ result.status =
              IF \E i, j \in 1..Len(df) : HedgePair(i, j) /\ PairOverlap(i, j) >= 1000
              THEN "VIOLATED" ELSE "PASSED"
        /\ Len(result.violations) =
              Cardinality({p \in (1..Len(df)) \X (1..Len(df)) :
                              HedgePair(p[1], p[2]) /\ PairOverlap(p[1], p[2]) >= 1000})

\* A table with a pair overlapping by exactly 1.000 s (reported) and a pair
\* overlapping by 0.999 s (not reported), loaded against the time order.
C1_Witness ==
    /\ Done(1)
    /\ \E i, j \in 1..Len(df) :
          HedgePair(i, j) /\ PairOverlap(i, j) = 1000 /\ PairReports(i, j) = 1
          /\ df[i].open_time > df[j].open_time
    /\ \E i, j \in 1..Len(df) :
          HedgePair(i, j) /\ PairOverlap(i, j) = 999 /\ PairReports(i, j) = 0

\* Rule 19: the weekend windows [Friday 22:00, Sunday 22:00) UTC, stated from
\* the calendar: window n starts 4 days and 22 hours after the Monday of week n.
WeekNumbers == -2 .. 2
WindowStart(n) == n * Week + 4 * Day + 22 * Hour
WindowEnd(n) == WindowStart(n) + 48 * Hour
InWeekendWindow(t) == \E n \in WeekNumbers : WindowStart(n) <= t /\ t < WindowEnd(n)
HeldOverWeekend(t) ==
    \E n \in WeekNumbers :
        Min(t.close_time, WindowEnd(n)) - Max(t.open_time, WindowStart(n)) >= 1000

\* The number of violations of one event type reported for a position.
Events(pid, type) ==
    LET Is(v) == v.Position_ID = pid /\ v.Event_Type = type
    IN  Cardinality(Positions(result.violations, Is))

\* A trade opened on Friday 21:59:59 UTC and closed on the Saturday after it.
FridayToSaturday(t) ==
    /\ t.open_time = At(-3, 21, 59, 59, 0)
    /\ At(-2, 0, 0, 0, 0) <= t.close_time /\ t.close_time < At(-1, 0, 0, 0, 0)

\* C2 as stated: with the add-on off, a trade opened Friday 21:59:59 UTC and
\* closed on the following Saturday yields no OPEN violation and a HELD
\* violation.
C2_Original ==
    (Done(19) /\ ~addon_enabled) =>
        \A k \in 1..Len(df) :
            FridayToSaturday(df[k]) =>
                /\ Events(df[k].position_id, "OPEN") = 0
                /\ Events(df[k].position_id, "HELD") >= 1

\* C2 as amended: with the add-on off, a trade opened Friday 21:59:59 UTC and
\* closed on the following Saturday yields no OPEN violation and exactly one
\* CLOSE violation (its close lies inside the weekend window), and therefore
\* no HELD violation; the status is VIOLATED.
C2_FridayToSaturday ==
    (Done(19) /\ ~addon_enabled) =>
        \A k \in 1..Len(df) :
            FridayToSaturday(df[k]) =>
                /\ Events(df[k].position_id, "OPEN") = 0
                /\ Events(df[k].position_id, "CLOSE") = 1
                /\ Events(df[k].position_id, "HELD") = 0
                /\ result.status = "VIOLATED"

\* Rule 19 has run on a table holding a Friday 21:59:59 to Saturday trade.
C2_Witness ==
    /\ Done(19) /\ ~addon_enabled
    /\ \E k \in 1..Len(df) :
          FridayToSaturday(df[k]) /\ Events(df[k].position_id, "CLOSE") = 1

\* C3: with the add-on off, for every trade an OPEN violation is reported
\* iff its open time is inside a weekend window, a CLOSE violation iff its
\* close time is, and a HELD violation iff neither was flagged and the trade
\* overlaps a weekend window by at least 1 second; each at most once, HELD
\* never together with OPEN or CLOSE; the status is VIOLATED iff some trade
\* yields one of the three.
C3_WeekendEvents ==
    (Done(19) /\ ~addon_enabled) =>
        /\ \A k \in 1..Len(df) :
              LET t == df[k]
                  open_in == InWeekendWindow(t.open_time)
                  close_in == InWeekendWindow(t.close_time)
              IN  /\ Events(t.position_id, "OPEN") = IF open_in THEN 1 ELSE 0
                  /\ Events(t.position_id, "CLOSE") = IF close_in THEN 1 ELSE 0
                  /\ Events(t.position_id, "HELD") =
                        IF ~open_in /\ ~close_in /\ HeldOverWeekend(t) THEN 1 ELSE 0
                  /\ Events(t.position_id, "HELD") >= 1 =>
                        Events(t.position_id, "OPEN") + Events(t.position_id, "CLOSE") = 0
        /\ \A n \in 1..Len(result.violations) :
              /\ result.violations[n].Event_Type \in {"OPEN", "CLOSE", "HELD"}
              /\ \E k \in 1..Len(df) : df[k].position_id = result.violations[n].Position_ID
        /\ result.status = IF result.violations # <<>> THEN "VIOLATED" ELSE "PASSED"

\* Rule 19 has run on a table with a trade held over two weekend windows
\* (one HELD) and a trade flagged both OPEN and CLOSE.
C3_Witness ==
    /\ Done(19) /\ ~addon_enabled
    /\ \E k \in 1..Len(df) :
          /\ Cardinality({n \in WeekNumbers :
                  Min(df[k].close_time, WindowEnd(n)) - Max(df[k].open_time, WindowStart(n)) >= 1000}) = 2
          /\ Events(df[k].position_id, "HELD") = 1
    /\ \E k \in 1..Len(df) :
          Events(df[k].position_id, "OPEN") = 1 /\ Events(df[k].position_id, "CLOSE") = 1

\* Rule 15: the number of trades of an instrument and direction open at t.
OpenAt(ins, dir, t) ==
    Cardinality({k \in 1..Len(df) :
        /\ df[k].instrument = ins /\ df[k].side = dir
        /\ df[k].open_time <= t /\ t < df[k].close_time})
ReportsAt(ins, dir, t) ==
    LET Is(v) == v.Instrument = ins /\ v.Direction = dir /\ v.Timestamp = t
    IN  Positions(result.violations, Is)

\* The scenario's table: three BUY EURUSD trades 10:00-11:00, 10:30-11:30
\* and 10:45-12:00, in any row order.
ThreeWayScenario ==
    /\ Len(df) = 3
    /\ \A k \in 1..3 : df[k].instrument = "EURUSD" /\ df[k].side = "BUY"
    /\ {<<df[k].open_time, df[k].close_time>> : k \in 1..3} =
          {<<At(0, 10, 0, 0, 0), At(0, 11, 0, 0, 0)>>,
           <<At(0, 10, 30, 0, 0), At(0, 11, 30, 0, 0)>>,
           <<At(0, 10, 45, 0, 0), At(0, 12, 0, 0, 0)>>}

\* C4: Rule 15 counts, at each trade's open instant t, the trades of the
\* same instrument and direction with open <= t < close; it reports one
\* violation, carrying that count, for each (instrument, direction, t) whose
\* count exceeds 2 and none when the count is 2 or less; never two for the
\* same (instrument, direction, timestamp); the three-way scenario gives one
\* violation with count 3 at 10:45.
C4_OneSidedBets ==
    Done(15) =>
        /\ \A k \in 1..Len(df) :
              LET ins == df[k].instrument
                  dir == df[k].side
                  t == df[k].open_time
                  at == ReportsAt(ins, dir, t)
              IN  /\ Cardinality(at) = IF OpenAt(ins, dir, t) > 2 THEN 1 ELSE 0
                  /\ \A n \in at :
                        result.violations[n].Overlapping_Trades_Count = OpenAt(ins, dir, t)
        /\ \A n \in 1..Len(result.violations) :
              \E k \in 1..Len(df) :
                  /\ df[k].instrument = result.violations[n].Instrument
                  /\ df[k].side = result.violations[n].Direction
                  /\ df[k].open_time = result.violations[n].Timestamp
        /\ result.status = IF result.violations # <<>> THEN "VIOLATED" ELSE "PASSED"
        /\ ThreeWayScenario =>
              /\ Len(result.violations) = 1
              /\ result.violations[1].Timestamp = At(0, 10, 45, 0, 0)
              /\ result.violations[1].Overlapping_Trades_Count = 3

\* Rule 15 has run on the three-way scenario and reported its violation.
C4_Witness ==
    /\ Done(15)
    /\ ThreeWayScenario
    /\ Len(result.violations) = 1
    /\ result.violations[1].Overlapping_Trades_Count = 3


\* The margin of trade t and the margin usage at instant ts, in exact
\* arithmetic: lots x 100000 x open price / leverage, summed over the trades
\* with open <= ts < close, divided by the equity, times 100.
ExactMargin(t) ==
    RDiv(RMul(RMul(t.lots, Num(CONTRACT_SIZE_STANDARD)), t.open_price),
         Num(ACCOUNT_TYPES[account_type].leverage))

RECURSIVE ExactMarginSum(_, _)
ExactMarginSum(ts, k) ==
    IF k = 0 THEN Num(0)
    ELSE IF df[k].open_time <= ts /\ ts < df[k].close_time
    THEN RAdd(ExactMarginSum(ts, k - 1), ExactMargin(df[k]))
    ELSE ExactMarginSum(ts, k - 1)

ExactUsage(ts) == RMul(RDiv(ExactMarginSum(ts, Len(df)), Num(account_equity)), Num(100))

MarginEvents == (1..Len(df)) \X {"open", "close"}
EventTime(ev) == IF ev[2] = "open" THEN df[ev[1]].open_time ELSE df[ev[1]].close_time
MarginReports(ev) ==
    {j \in 1..Len(result.violations) :
        /\ result.violations[j].Timestamp = EventTime(ev)
        /\ result.violations[j].Event = ev[2]
        /\ result.violations[j].Trigger_Position_ID = df[ev[1]].position_id}

\* C5: Rule 13 records a violation for an open or close event iff the margin
\* usage at that instant, summed over the trades open then, is above 80.1
\* (not at exactly 80.1); the status is VIOLATED iff some event violates, and
\* never NOT_TESTABLE.
C5_MarginUsage ==
    Done(13) =>
        /\ \A ev \in MarginEvents :
              Cardinality(MarginReports(ev)) =
                  IF RGt(ExactUsage(EventTime(ev)), MAX_MARGIN_USAGE_PERCENT) THEN 1 ELSE 0
        /\ Len(result.violations) =
              Cardinality({ev \in MarginEvents :
                              RGt(ExactUsage(EventTime(ev)), MAX_MARGIN_USAGE_PERCENT)})
        /\ result.status = STATUS_VIOLATED <=> result.violations # <<>>
        /\ result.status \in {STATUS_VIOLATED, STATUS_PASSED}


ShortTrades == Positions(df, LAMBDA t : t.close_time - t.open_time < 61 * MsPerSecond)

\* C6: Rule 14 counts a trade as short iff it lasted less than 61 seconds; the
\* status is VIOLATED iff strictly more than half of all trades are short,
\* PASSED otherwise (also for an empty table), and never NOT_TESTABLE.
C6_Gambling ==
    Done(14) =>
        /\ result.short_trades_count = Cardinality(ShortTrades)
        /\ {t.idx : t \in {result.short_trades[k] : k \in 1..Len(result.short_trades)}}
              = {df[k].idx : k \in ShortTrades}
        /\ result.status =
              IF 2 * Cardinality(ShortTrades) > Len(df)
              THEN STATUS_VIOLATED ELSE STATUS_PASSED

\* Exactly half of four trades are short, one of them by a millisecond, and
\* one of the others lasts exactly 61 seconds: the table passes.
C6_Witness ==
    /\ Done(14)
    /\ Len(df) = 4
    /\ Cardinality(ShortTrades) = 2
    /\ \E k \in 1..4 : df[k].duration_ms = 60999
    /\ \E k \in 1..4 : df[k].duration_ms = 61 * MsPerSecond
    /\ result.status = STATUS_PASSED


\* A trade has a stop loss set, and so a defined risk, when its stop loss is
\* present and not 0.
StopLossSet(t) == notna(t.stop_loss) /\ t.stop_loss # Num(0)

\* |entry - stop_loss| x lots x value_per_point x 100 / equity x 100, exactly.
ExactRiskDollars(t) ==
    RMul(RMul(RMul(RAbs(RSub(t.open_price, t.stop_loss)), t.lots),
              get_value_per_point(t.instrument)), Num(100))
ExactRiskPercent(t) == RMul(RDiv(ExactRiskDollars(t), Num(account_equity)), Num(100))

AllOrNothingTrades ==
    {k \in Positions(df, StopLossSet) : RGe(ExactRiskPercent(df[k]), Num(100))}

\* C7: Rule 12 is NOT_TESTABLE iff no trade has a stop loss set; otherwise it
\* reports one violation for exactly the stop-loss trades whose risk is at
\* least 100% of the equity, and is VIOLATED iff there is one, else PASSED.
C7_AllOrNothing ==
    Done(12) =>
        /\ result.status = STATUS_NOT_TESTABLE <=> Positions(df, StopLossSet) = {}
        /\ Positions(df, StopLossSet) # {} =>
              /\ \A k \in 1..Len(df) :
                    Cardinality({j \in 1..Len(result.violations) :
                                    result.violations[j].Position_ID = df[k].position_id})
                        = IF k \in AllOrNothingTrades THEN 1 ELSE 0
              /\ result.status =
                    IF AllOrNothingTrades # {} THEN STATUS_VIOLATED ELSE STATUS_PASSED

\* C8: when every trade of the table has an undefined risk (stop loss absent
\* or 0), Rules 12 and 17 return NOT_TESTABLE, never PASSED.
C8_UndefinedRisk ==
    (Done(12) \/ Done(17)) /\ Positions(df, StopLossSet) = {} =>
        result.status = STATUS_NOT_TESTABLE


InLoop(r) == rule = r /\ pc \in {"loop", "done"}

\* The open time of the k-th trade in open-time order.
KthOpen(k) ==
    CHOOSE t \in {df[j].open_time : j \in 1..Len(df)} :
        /\ Cardinality({j \in 1..Len(df) : df[j].open_time < t}) < k
        /\ k <= Cardinality({j \in 1..Len(df) : df[j].open_time <= t})

\* The trades of the window [t, t + 24 h), their notional volume lots x
\* 100000 x open price in exact arithmetic, and those without a stop loss.
Window16(t) == {j \in 1..Len(df) : t <= df[j].open_time /\ df[j].open_time < t + 24 * Hour}

RECURSIVE ExactVolume(_, _)
ExactVolume(t, k) ==
    IF k = 0 THEN Num(0)
    ELSE IF k \in Window16(t)
    THEN RAdd(ExactVolume(t, k - 1),
              RMul(RMul(RAbs(df[k].lots), Num(100000)), df[k].open_price))
    ELSE ExactVolume(t, k - 1)

NoStopLoss16(t) == {j \in Window16(t) : isna(df[j].stop_loss) \/ df[j].stop_loss = Num(0)}

Violating16(t) ==
    /\ RGe(ExactVolume(t, Len(df)), Num(10 * account_equity))
    /\ 100 * Cardinality(NoStopLoss16(t)) >= 80 * Cardinality(Window16(t))

\* C9: Rule 16 finds the window [t, t + 24 h) anchored at a trade's open time
\* violating iff its notional volume is at least 10 x equity and at least 80%
\* of its trades have no stop loss (absent or 0); the status is VIOLATED iff
\* some window is violating, PASSED otherwise, and never NOT_TESTABLE.
C9_AbuseWindows ==
    InLoop(16) =>
        /\ \A k \in 1..loop_i : flagged[k] <=> Violating16(KthOpen(k))
        /\ Done(16) =>
              result.status =
                  IF \E k \in 1..Len(df) : Violating16(df[k].open_time)
                  THEN STATUS_VIOLATED ELSE STATUS_PASSED

\* C10: after any prefix of the trades in open-time order, any two reported
\* violations start at least 3600 s apart, and every violating window of the
\* prefix starts less than 3600 s from a reported violation.
C10_WindowMerging ==
    InLoop(16) =>
        /\ \A i, j \in 1..Len(violations) :
              i # j => Abs(violations[i].Window_Start - violations[j].Window_Start)
                           >= 3600 * MsPerSecond
        /\ \A k \in 1..loop_i :
              Violating16(KthOpen(k)) =>
                  \E j \in 1..Len(violations) :
                      Abs(violations[j].Window_Start - KthOpen(k)) < 3600 * MsPerSecond


\* The trades with stop-loss data, and for two of them whether they belong to
\* one trade idea: same instrument and direction, and no two trades of that
\* group, consecutive in open time and between the two, open more than the
\* gap (60 s for gold, 300 s otherwise) apart.
WithStopLossData == {k \in 1..Len(df) : notna(df[k].stop_loss)}

IdeaGap(instrument) ==
    IF instrument \in {"XAUUSD", "XAUUSD.pro"} THEN 60 * MsPerSecond ELSE 300 * MsPerSecond

SameGroup17(i, j) == df[i].instrument = df[j].instrument /\ df[i].side = df[j].side

SameIdea(i, j) ==
    /\ SameGroup17(i, j)
    /\ LET opens == {df[k].open_time : k \in {n \in WithStopLossData : SameGroup17(i, n)}}
           lo == Min(df[i].open_time, df[j].open_time)
           hi == Max(df[i].open_time, df[j].open_time)
       IN  ~ \E a, b \in opens :
               /\ lo <= a /\ a < b /\ b <= hi
               /\ ~ \E c \in opens : a < c /\ c < b
               /\ b - a > IdeaGap(df[i].instrument)

TradeIdeas == {{j \in WithStopLossData : SameIdea(i, j)} : i \in WithStopLossData}

\* The summed risk of an idea in exact arithmetic, over its trades with a
\* defined risk, as a percentage of the equity.
RECURSIVE ExactIdeaRisk(_, _)
ExactIdeaRisk(idea, k) ==
    IF k = 0 THEN Num(0)
    ELSE IF k \in idea /\ StopLossSet(df[k])
    THEN RAdd(ExactIdeaRisk(idea, k - 1), ExactRiskDollars(df[k]))
    ELSE ExactIdeaRisk(idea, k - 1)

ExactIdeaRiskPercent(idea) ==
    RMul(RDiv(ExactIdeaRisk(idea, Len(df)), Num(account_equity)), Num(100))

RiskyIdeas == {idea \in TradeIdeas : RGt(ExactIdeaRiskPercent(idea), Rat(205, 100))}

ReportedIdeas ==
    {{k \in 1..Len(df) :
         \E n \in 1..Len(result.violations[v].Position_IDs) :
             result.violations[v].Position_IDs[n] = df[k].position_id} :
        v \in 1..Len(result.violations)}

\* C11: Rule 17 is NOT_TESTABLE when the account is not Direct Funding or no
\* trade has stop-loss data; otherwise it reports one violation for exactly
\* the trade ideas whose summed risk exceeds 2.05% of the equity, and is
\* VIOLATED iff there is one, else PASSED.
C11_MaxRiskPerIdea ==
    Done(17) =>
        IF account_type # "Direct Funding" \/ WithStopLossData = {}
        THEN result.status = STATUS_NOT_TESTABLE
        ELSE /\ ReportedIdeas = RiskyIdeas
             /\ Len(result.violations) = Cardinality(RiskyIdeas)
             /\ result.status =
                   IF RiskyIdeas # {} THEN STATUS_VIOLATED ELSE STATUS_PASSED


\* The event list the provider hands to Rule 18 for the table.
NewsEvents ==
    fetch_forex_factory_news(
        IF df = <<>> THEN NaT ELSE date(SeqMin(Column(df, "open_time"))),
        IF df = <<>> THEN NaT ELSE date(SeqMax(Column(df, "close_time"))))

\* C12: with the add-on off and an empty news event list, Rule 18 is
\* NOT_TESTABLE for every trade table: never PASSED, and no empty violation
\* list is reported as a pass.
C12_NoNewsData ==
    (Done(18) /\ ~addon_enabled /\ NewsEvents = <<>>) =>
        /\ result.status = STATUS_NOT_TESTABLE
        /\ "violations_found" \notin DOMAIN result

\* Two trades, the add-on off, no news data: not testable.
C12_Witness ==
    /\ Done(18) /\ ~addon_enabled /\ NewsEvents = <<>>
    /\ Len(df) = 2
    /\ df[1].instrument = "EURUSD"
    /\ result.rule_number = 18
    /\ result.status = STATUS_NOT_TESTABLE


\* C13: with the add-on enabled, Rule 18 and Rule 19 yield NOT_TESTABLE for
\* every trade table, from the rule functions and from the executor alike.
C13_AddOnEnabled ==
    ((Done(18) \/ Done(19)) /\ addon_enabled) => result.status = STATUS_NOT_TESTABLE


\* The calendar dates on which a trade opened.
TradingDates == {df[k].open_time \div Day : k \in 1..Len(df)}

MinimumDays ==
    CASE account_type \in {"2-Step Phase 1", "2-Step Phase 2"} -> 0
      [] account_type = "Funded Phase" -> 4
      [] account_type = "Direct Funding" -> 7

\* C14: Rule 23 is VIOLATED iff the account type's minimum m (0, 0, 4, 7) is
\* positive and fewer than m distinct calendar dates have a trade opening,
\* PASSED otherwise; it is never NOT_TESTABLE.
C14_MinimumTradingDays ==
    Done(23) =>
        result.status =
            IF MinimumDays > 0 /\ Cardinality(TradingDates) < MinimumDays
            THEN STATUS_VIOLATED ELSE STATUS_PASSED

\* A funded account with four trades on three dates, two of them a second
\* apart across midnight.
C14_Witness ==
    /\ Done(23)
    /\ account_type = "Funded Phase"
    /\ Len(df) = 4
    /\ Cardinality(TradingDates) = 3
    /\ \E i, j \in 1..Len(df) : df[i].open_time - df[j].open_time = MsPerSecond
    /\ result.status = STATUS_VIOLATED


\* The k-th smallest of a list of exact values, and their median: the middle
\* value or the mean of the two middle ones, undefined for an empty list.
ExactKth(values, k) ==
    CHOOSE x \in {values[j] : j \in 1..Len(values)} :
        /\ Cardinality({j \in 1..Len(values) : RLt(values[j], x)}) < k
        /\ k <= Cardinality({j \in 1..Len(values) : RLe(values[j], x)})

ExactMedian(values) ==
    IF values = <<>> THEN NaN
    ELSE IF Len(values) % 2 = 1 THEN ExactKth(values, (Len(values) + 1) \div 2)
    ELSE RDiv(RAdd(ExactKth(values, Len(values) \div 2),
                   ExactKth(values, Len(values) \div 2 + 1)), Num(2))

\* The three metrics of a phase table: median duration in seconds, trades
\* per distinct opening date, median risk percentage of the trades with a
\* stop loss set.
MedianDuration(table) ==
    ExactMedian([k \in 1..Len(table) |-> Rat(table[k].duration_ms, MsPerSecond)])

TradesPerDay(table) ==
    Rat(Len(table), Cardinality({table[k].open_time \div Day : k \in 1..Len(table)}))

MedianRisk(table) ==
    LET with_sl == SelectSeq(table, StopLossSet)
    IN  ExactMedian([k \in 1..Len(with_sl) |-> ExactRiskPercent(with_sl[k])])

\* The ratio max/min of two metric values is at least 3; a ratio with a
\* value that is 0 or undefined is undefined and does not count.
RatioExceeds(a, b) ==
    /\ notna(a) /\ notna(b) /\ a[1] # 0 /\ b[1] # 0
    /\ RGe(a, RMul(Num(3), b)) \/ RGe(b, RMul(Num(3), a))

MetricsExceeding(t1, t2) ==
    (IF RatioExceeds(MedianDuration(t1), MedianDuration(t2)) THEN 1 ELSE 0)
    + (IF RatioExceeds(TradesPerDay(t1), TradesPerDay(t2)) THEN 1 ELSE 0)
    + (IF RatioExceeds(MedianRisk(t1), MedianRisk(t2)) THEN 1 ELSE 0)

\* C15: Rule 3 is NOT_TESTABLE with fewer than 2 phases or a phase of fewer
\* than 20 trades; otherwise it is VIOLATED iff at least 2 of the 3 metric
\* ratios max/min are >= 3, else PASSED, undefined ratios never counting.
C15_StrategyConsistency ==
    Done(3) =>
        IF Len(phases) < 2 THEN result.status = STATUS_NOT_TESTABLE
        ELSE LET t1 == rule_3_phases(phases)[1]
                 t2 == rule_3_phases(phases)[2]
             IN  IF Len(t1) < 20 \/ Len(t2) < 20
                 THEN result.status = STATUS_NOT_TESTABLE
                 ELSE result.status =
                          IF MetricsExceeding(t1, t2) >= 2
                          THEN STATUS_VIOLATED ELSE STATUS_PASSED


\* Rule 4: the trades with a Stop Loss and a Take Profit, the exact pattern
\* of a trade, and the sets of at least 10 such trades that have pairwise
\* identical patterns and open on at least 3 distinct calendar days.
WithSlTp == {k \in 1..Len(df) : notna(df[k].stop_loss) /\ notna(df[k].take_profit)}
SlDistance(t) == RAbs(RSub(t.open_price, t.stop_loss))
TpDistance(t) == RAbs(RSub(t.open_price, t.take_profit))
IdenticalPattern(t, u) ==
    /\ RLe(RAbs(RSub(SlDistance(t), SlDistance(u))), Rat(1, 100000))
    /\ RLe(RAbs(RSub(TpDistance(t), TpDistance(u))), Rat(1, 100000))
    /\ t.duration_ms - u.duration_ms \in -MsPerSecond..MsPerSecond
    /\ RLe(RAbs(RSub(t.lots, u.lots)), Rat(1, 10000))
IdenticalTrades ==
    {S \in SUBSET WithSlTp :
        /\ Cardinality(S) >= 10
        /\ \A i, j \in S : IdenticalPattern(df[i], df[j])
        /\ Cardinality({df[k].open_time \div Day : k \in S}) >= 3}

\* C16: Rule 4 is NOT_TESTABLE iff fewer than 10 trades have both Stop Loss
\* and Take Profit; otherwise, whenever at least 10 of these trades have
\* identical patterns (distances within 0.00001, durations within 1 s, lots
\* within 0.0001) and open on at least 3 distinct calendar days, the status
\* is VIOLATED, in whatever order the rows come.
C16_ProhibitedEAs ==
    Done(4) =>
        /\ result.status = STATUS_NOT_TESTABLE <=> Cardinality(WithSlTp) < 10
        /\ Cardinality(WithSlTp) >= 10 /\ IdenticalTrades # {}
              => result.status = STATUS_VIOLATED


\* Rule 4 clustering, as first-match greedy: the seed of each of the first k
\* trades of the frame.  A trade that matches no earlier seed is a seed (its
\* own); every other trade belongs to the first seed it matches.
RECURSIVE SeedOf(_)
SeedOf(k) ==
    IF k = 0 THEN <<>>
    ELSE Value(SeedOf(k - 1), LAMBDA earlier :
             LET matching == {s \in 1..(k - 1) :
                                 /\ earlier[s] = s
                                 /\ is_pattern_match(df_with_sl_tp[s], df_with_sl_tp[k])}
             IN  Append(earlier, IF matching = {} THEN k
                                 ELSE CHOOSE s \in matching : \A r \in matching : s <= r))

\* The groups of the seeds among the first k trades that have at least 10
\* members, each as the index labels of its members in table order.
GreedyGroups(seed, k) ==
    LET n == Len(df_with_sl_tp)
        Group(s) == SelectSeq([j \in 1..n |-> j], LAMBDA j : seed[j] = s)
        Large(s) == s <= k /\ seed[s] = s /\ Len(Group(s)) >= 10
        large == SelectSeq([j \in 1..n |-> j], Large)
    IN  [g \in 1..Len(large) |->
            [j \in 1..Len(Group(large[g])) |-> df_with_sl_tp[Group(large[g])[j]].idx]]

\* C17: find_pattern_groups is first-match greedy against fixed seeds: going
\* through the trades in table order, a trade that matches no earlier seed is
\* the seed of a new group, every other trade is in the group of the first
\* seed it matches and is used up by it, whatever other members it matches;
\* the groups recorded are those of at least 10 trades.
C17_GreedyClustering ==
    rule = 4 /\ pc \in {"find_pattern_groups", "done"} /\ df_with_sl_tp # <<>> =>
        LET n == Len(df_with_sl_tp)
            seen == loop_i - 1
        IN  Value(SeedOf(n), LAMBDA seed :
                Value(GreedyGroups(seed, seen), LAMBDA groups :
                    /\ pattern_groups = groups
                    /\ \A k \in 1..n :
                          df_with_sl_tp[k].idx \in used_indices
                              <=> /\ seed[k] <= seen
                                  /\ seed[k] = k =>
                                        \E g \in 1..Len(groups) :
                                            groups[g][1] = df_with_sl_tp[k].idx))

\* A recorded group has two members that match the seed and not each other.
C17_Witness ==
    /\ Done(4)
    /\ \E g \in 1..Len(pattern_groups) :
          \E i, j \in 2..Len(pattern_groups[g]) :
              ~is_pattern_match(loc(df_with_sl_tp, pattern_groups[g][i]),
                                loc(df_with_sl_tp, pattern_groups[g][j]))


\* The number of results of the list with a status.
WithStatus(status) ==
    Cardinality({k \in 1..Len(results) :
                    "status" \in DOMAIN results[k] /\ results[k].status = status})

\* C18: the overall verdict is the failing one iff at least one result is
\* VIOLATED; otherwise it is PASSED iff at least one result is PASSED;
\* otherwise INCOMPLETE; NOT_TESTABLE results never make it failing; the
\* counts are the number of results and of those of each of the three
\* statuses.
C18_OverallStatus ==
    pc = "overall" =>
        /\ result.overall = "FAILED" <=> WithStatus(STATUS_VIOLATED) >= 1
        /\ WithStatus(STATUS_VIOLATED) = 0
              => (result.overall = "PASSED" <=> WithStatus(STATUS_PASSED) >= 1)
        /\ result.overall \in {"FAILED", "PASSED", "INCOMPLETE"}
        /\ result.counts = [passed |-> WithStatus(STATUS_PASSED),
                            violated |-> WithStatus(STATUS_VIOLATED),
                            not_testable |-> WithStatus(STATUS_NOT_TESTABLE),
                            total |-> Len(results)]

\* A list with PASSED and NOT_TESTABLE results and none VIOLATED is PASSED.
C18_Witness ==
    /\ pc = "overall"
    /\ WithStatus(STATUS_NOT_TESTABLE) >= 1
    /\ WithStatus(STATUS_PASSED) >= 1
    /\ WithStatus(STATUS_PASSED) + WithStatus(STATUS_NOT_TESTABLE) < Len(results)
    /\ result.overall = "PASSED"


\* C19: in execute_all_rules, a rule whose evaluator raises gets a result of
\* status ERROR, every other rule gets the result its evaluator returns, as
\* in a run without the failure, and the loop goes on to the last rule.
C19_ErrorIsolation ==
    pc \in {"for", "done"} =>
        /\ \A k \in 1..Len(results) :
              IF k \in Raised(results)
              THEN /\ results[k].rule_number = active_rules[k]
                   /\ results[k].status = "ERROR"
              ELSE results[k] = rule_result(active_rules[k], phases, df, account_type,
                                            account_equity, addon_enabled, addon_enabled)
        /\ Len(results) = loop_i
        /\ pc = "done" => Len(results) = Len(active_rules)


\* The valid rows of the file read: those with a Lots value.
ValidRows == SelectSeq(df, LAMBDA row : notna(row.lots))

\* C20: a file is rejected iff strictly fewer than 95% of its rows are valid
\* (94% rejected, 95% accepted, a file without rows rejected); an accepted
\* file goes on with exactly its valid rows, and when rows were dropped their
\* number is reported.
C20_QualityGate ==
    pc \in {"validate_csv_file", "validate_csv_quality"} =>
        /\ result.is_valid <=>
              Len(df) > 0 /\ 100 * Len(ValidRows) >= MIN_VALID_PERCENT * Len(df)
        /\ result.is_valid =>
              /\ result.df = ValidRows
              /\ Len(ValidRows) < Len(df) => result.removed = Len(df) - Len(ValidRows)


\* C24: given at least two labeled phase tables, execute_rule_3 compares the
\* ordered pair (Phase 1, Phase 2) if both are present, else (Phase 1, Funded
\* Phase) if both are present, else (Phase 2, Funded Phase) if both are
\* present, else the first two phases in insertion order.
Labels == {phases[k].name : k \in 1..Len(phases)}
TableOf(label) == phases[CHOOSE k \in 1..Len(phases) : phases[k].name = label].df
Compared(first, second) ==
    /\ result.phase1_trades = Len(first)
    /\ result.phase2_trades = Len(second)
C24_PhasePairing ==
    (Done(3) /\ Len(phases) >= 2) =>
        /\ {"Phase 1", "Phase 2"} \subseteq Labels
              => Compared(TableOf("Phase 1"), TableOf("Phase 2"))
        /\ ({"Phase 1", "Funded Phase"} \subseteq Labels /\ "Phase 2" \notin Labels)
              => Compared(TableOf("Phase 1"), TableOf("Funded Phase"))
        /\ ({"Phase 2", "Funded Phase"} \subseteq Labels /\ "Phase 1" \notin Labels)
              => Compared(TableOf("Phase 2"), TableOf("Funded Phase"))
        /\ (Cardinality(Labels \cap {"Phase 1", "Phase 2", "Funded Phase"}) < 2)
              => Compared(phases[1].df, phases[2].df)
\* Three files added as Funded Phase, Phase 2, Phase 1: the pair compared is
\* the third and the second file.
C24_Witness ==
    /\ Done(3)
    /\ Len(phases) = 3
    /\ phases[1].name = "Funded Phase" /\ phases[2].name = "Phase 2"
    /\ phases[3].name = "Phase 1"
    /\ result.phase1_trades = 3 /\ result.phase2_trades = 2


\* C28: at every step of find_pattern_groups and on its return, every
\* recorded group has at least 10 members, every member matches the seed of
\* its group (the first member) on all four tolerances, no trade appears in
\* two recorded groups, and every member of a recorded group is in
\* used_indices.
TradeAt(i) == df[CHOOSE k \in 1..Len(df) : df[k].idx = i]
Members(g) == {pattern_groups[g][j] : j \in 1..Len(pattern_groups[g])}
C29_OneResultPerRule ==
    /\ pc \in {"for", "done"} =>
          /\ Len(results) = loop_i
          /\ \A k \in 1..Len(results) : results[k].rule_number = active_rules[k]
    /\ pc = "done" => Len(results) = Len(active_rules)
    /\ pc # "raised"


\* Rule 15: the instants that matter.  The number of open trades changes
\* only where a trade opens or closes, so the open and close instants of the
\* table and one instant inside every gap between two of them stand for all
\* instants.
Boundaries == {df[k].open_time : k \in 1..Len(df)} \cup {df[k].close_time : k \in 1..Len(df)}
Instants == Boundaries \cup {(a + b) \div 2 : a, b \in Boundaries}
OneSidedAt(t) ==
    \E k \in 1..Len(df) : OpenAt(df[k].instrument, df[k].side, t) > 2

\* C27: Rule 15 is VIOLATED iff there are an instrument, a direction and an
\* instant t at which more than 2 trades of that instrument and direction are
\* open (open <= t < close); looking only at the instants at which a trade
\* opens misses no such instant.
C27_OneSidedComplete ==
    Done(15) =>
        /\ result.status = STATUS_VIOLATED <=> \E t \in Instants : OneSidedAt(t)
        /\ (\E t \in Instants : OneSidedAt(t))
              => \E k \in 1..Len(df) : OneSidedAt(df[k].open_time)
\* Rule 15 has reported a table in which more than 2 trades are open at an
\* instant at which no trade opens.
C27_Witness ==
    /\ Done(15)
    /\ result.status = STATUS_VIOLATED
    /\ \E t \in Instants :
          /\ OneSidedAt(t)
          /\ \A k \in 1..Len(df) : df[k].open_time # t


\* The instants probed inside a range: every whole hour and the last
\* millisecond of every hour of the weeks of the range.
Probes ==
    {t \in {h * Hour - ms : h \in (-2 * 7 * 24)..((MaxWeeks - 2) * 7 * 24), ms \in {0, 1}} :
        locals.start_date <= t /\ t <= locals.end_date}
InReturnedWindow(t) ==
    \E k \in 1..Len(locals.weekend_windows) :
        locals.weekend_windows[k][1] <= t /\ t < locals.weekend_windows[k][2]
WeekendPrimitivesAgree ==
    pc \in {"while", "done"} /\ rule = 0 =>
        LET windows == locals.weekend_windows
        IN  /\ \A k \in 1..Len(windows) :
                  /\ windows[k][2] - windows[k][1] = 48 * Hour
                  /\ weekday(windows[k][1]) = 4
                  /\ windows[k][1] % Day = 22 * Hour
                  /\ k > 1 => windows[k - 1][1] < windows[k][1]
            /\ pc = "done" =>
                  /\ \A t \in Probes : is_weekend(t) <=> InReturnedWindow(t)
                  /\ \A n \in WeekNumbers :
                        (WindowStart(n) <= locals.end_date
                         /\ WindowEnd(n) > locals.start_date)
                            => \E k \in 1..Len(windows) :
                                   windows[k] = <<WindowStart(n), WindowEnd(n)>>
                  /\ windows = get_weekend_windows(locals.start_date, locals.end_date)

\* C26: for every UTC instant t inside a range, is_weekend(t) is true iff t
\* lies in one of the intervals [Friday 22:00, Sunday 22:00) that
\* get_weekend_windows returns for the range; it returns every such interval
\* that intersects the range, each exactly 48 hours long and starting on a
\* Friday at 22:00, in ascending order, and its loop terminates.
C26_WeekendPrimitives == [](WeekendPrimitivesAgree) /\ <>(pc = "done")
\* A range from a Saturday to the Sunday of the week after has returned with
\* two windows.
C26_Witness ==
    /\ pc = "done" /\ rule = 0
    /\ locals.start_date = At(-9, 12, 0, 0, 0)
    /\ locals.end_date = At(-1, 23, 30, 0, 0)
    /\ Len(locals.weekend_windows) = 2
    /\ \E t \in Probes : is_weekend(t)
    /\ \E t \in Probes : ~is_weekend(t)


\* Rule 17: the trades of the table in the order of their open times (rows
\* that open together in file order), the trades between two trades of the
\* same instrument and direction.
OpensBefore(a, b) ==
    a.open_time < b.open_time \/ (a.open_time = b.open_time /\ a.idx < b.idx)
SameGroup(a, b) == a.instrument = b.instrument /\ a.side = b.side
\* a and b are consecutive among the trades of `table` of their instrument
\* and direction.
ConsecutiveIn(table, a, b) ==
    /\ SameGroup(a, b) /\ OpensBefore(a, b)
    /\ ~\E k \in 1..Len(table) :
          SameGroup(a, table[k]) /\ OpensBefore(a, table[k]) /\ OpensBefore(table[k], b)
\* No two consecutive trades of `table` from a to b open more than the gap
\* apart.
ChainedIn(table, a, b) ==
    \A i, j \in 1..Len(table) :
        (/\ ConsecutiveIn(table, table[i], table[j])
         /\ ~OpensBefore(table[i], a) /\ ~OpensBefore(b, table[j]))
            => table[j].open_time - table[i].open_time <= IdeaGap(a.instrument)
IdeasOf(t) ==
    {k \in 1..Len(locals.trade_ideas) :
        \E j \in 1..Len(locals.trade_ideas[k]) : locals.trade_ideas[k][j].idx = t.idx}
IdeasGrouped ==
    Done(17) /\ locals # <<>> /\ "trade_ideas" \in DOMAIN locals
IdeasPartition ==
    /\ \A k \in 1..Len(locals.trade_ideas) :
          /\ locals.trade_ideas[k] # <<>>
          /\ \A i, j \in 1..Len(locals.trade_ideas[k]) :
                /\ SameGroup(locals.trade_ideas[k][i], locals.trade_ideas[k][j])
                /\ i # j => locals.trade_ideas[k][i].idx # locals.trade_ideas[k][j].idx
    /\ \A n \in 1..Len(locals.df_with_sl) :
          Cardinality(IdeasOf(locals.df_with_sl[n])) = 1
    /\ \A n \in 1..Len(df) :
          IdeasOf(df[n]) # {} => notna(df[n].stop_loss)
IdeasChainedIn(table) ==
    \A m, n \in 1..Len(locals.df_with_sl) :
        LET a == locals.df_with_sl[m]
            b == locals.df_with_sl[n]
        IN  SameGroup(a, b) /\ OpensBefore(a, b) =>
                (IdeasOf(a) = IdeasOf(b) <=> ChainedIn(table, a, b))

\* C25: within each (instrument, direction), taking the trades in open-time
\* order, two consecutive trades are in the same idea iff they open at most
\* 300 s apart (60 s for XAUUSD), consecutive being taken over all trades of
\* that instrument and direction in the table; the ideas partition the
\* grouped trades: every grouped trade is in exactly one idea, no idea is
\* empty, no idea mixes instruments or directions.
C25_IdeaGrouping ==
    IdeasGrouped => IdeasPartition /\ IdeasChainedIn(df)


Normalized == pc \in {"validate_csv_file", "load_csv"} /\ rule = 0 /\ result.is_valid
InOrderWithDuration(row) ==
    /\ ~row.open_time.empty /\ ~row.close_time.empty
    /\ row.open_time.ms <= row.close_time.ms
    /\ row.Duration_Seconds = Rat(row.close_time.ms - row.open_time.ms, MsPerSecond)

\* C21: every row of an accepted, normalized table has open_time <=
\* close_time (a row with open after close is swapped, not rejected) and a
\* duration_seconds equal to close_time - open_time computed after the swap,
\* whatever duration value the input carries.
C21_NormalizerOutput ==
    Normalized =>
        /\ \A k \in 1..Len(result.df.rows) : InOrderWithDuration(result.df.rows[k])
        /\ \A k \in 1..Len(df.rows) :
              (/\ time_errors(df.rows[k]) = {} /\ row_errors(df.rows[k]) = {}
               /\ open_after_close(df.rows[k].open_time, df.rows[k].close_time))
                  => \E n \in 1..Len(result.df.rows) :
                         /\ result.df.rows[n].position_id = df.rows[k].position_id
                         /\ result.df.rows[n].open_time = df.rows[k].close_time
                         /\ result.df.rows[n].close_time = df.rows[k].open_time

\* C22: validate_csv_file applied to a table that is its own accepted output
\* accepts it, drops no row, swaps no timestamps and returns an identical
\* table.
C22_NormalizerIdempotent ==
    pc = "validate_csv_file again" =>
        /\ locals.again.is_valid
        /\ locals.again.removed = 0
        /\ locals.again.swapped = 0
        /\ locals.again.df = result.df
\* The first pass dropped a row and swapped the times of another; the second
\* pass has run on its output.
C22_Witness ==
    /\ pc = "validate_csv_file again"
    /\ result.removed = 1
    /\ result.swapped = 1
    /\ Len(locals.again.df.rows) = MaxPadding + 1


\* C30: parse_rule_status returns the status the rule script printed: PASSED
\* for the output of a passing rule, VIOLATED for a violated one and
\* NOT_TESTABLE for a not testable one; a passing rule's output is never
\* classified as VIOLATED.
C30_StatusParsed ==
    pc = "parsed" =>
        /\ locals.status = result.status
        /\ result.status = STATUS_PASSED => locals.status # STATUS_VIOLATED

=============================================================================
